---------------------------- MODULE Spec2Model ----------------------------
(***************************************************************************)
(* The shader-graph editor of egui_node_graph_example: the socket type     *)
(* registry, the graph data model, postorder_traversal, code_gen, and the  *)
(* UI event handlers of NodeGraphExample::update (src/.../app.rs).         *)
(*                                                                         *)
(* Conventions.                                                            *)
(*  - An f32 is modelled by the integer 2*x (the count of halves): every   *)
(*    literal of the registries (0.0, 0.5, 1.0) is of that form.  FmtF32   *)
(*    renders it the way Rust's Display for f32 does (2.0 -> "2",          *)
(*    0.5 -> "0.5").                                                       *)
(*  - A String built by `text += &format!("...\n")` is modelled as the     *)
(*    sequence of its lines, each line a string without its "\n".          *)
(*  - Option<T> is modelled by None or the value.                          *)
(*  - A panic (HashMap / SlotMap index miss, unwrap of an Err) and a stack *)
(*    exhaustion end the process: `crashed` records which, and no handler  *)
(*    runs afterwards.                                                     *)
(***************************************************************************)
EXTENDS Integers, Sequences, FiniteSets, TLC

VARIABLES
    state,            \* NodeGraphExample.state: the editor state (the graph)
    user_state,       \* NodeGraphExample.user_state: [active_node]
    core_gen_code,    \* NodeGraphExample.core_gen_code
    path_buf,         \* NodeGraphExample.path_buf: Option<PathBuf> of the .fx file
    shader_path_buf,  \* NodeGraphExample.shader_path_buf: Option<PathBuf> of the .ron file
    files,            \* the file system: path -> contents (NoFile when absent)
    crashed,          \* "no", or why the process died
    traversal,        \* a run of postorder_traversal: its root, the Vec it built, its end
    hist              \* history: the last handled event and what the last save_graph saw

vars == <<state, user_state, core_gen_code, path_buf, shader_path_buf, files,
          crashed, traversal, hist>>

----------------------------------------------------------------------------
(* Bounds of the model.                                                    *)

\* The number of node keys the slot map hands out in one run.
MaxNodes == 3
\* The number of UI events handled in one run.
MaxEvents == 5

\* The kinds the user picks in the node finder in this model.
FinderKinds == {"MakeScalar", "AddScalar", "MainTexure2D", "Main"}
\* The kinds of the graphs postorder_traversal is run on.
OrderKinds == {"MakeScalar", "AddScalar"}
\* The number of connections of the graphs postorder_traversal is run on.
MaxConnections == 3
\* The values a DragValue is dragged to (in halves: 2.0, 3.0).
DragValues == {4}
\* The paths the file dialogs return.
RonPaths == {"graph.ron"}
FxPaths == {"shader.fx"}

\* Option::None of a path, and of a node id (node keys start at 1).
None == "None"
NoNode == 0
\* No traversal was run.
NoRun == [root |-> NoNode, collect |-> <<>>, status |-> "none"]
\* The contents of a path no file was written to.
NoFile == [kind |-> "none"]

----------------------------------------------------------------------------
(* Values and their text.                                                  *)

Scalar(h) == [tag |-> "Scalar", value |-> h]
Vec3(x, y, z) == [tag |-> "Vec3", value |-> <<x, y, z>>]

MyDataType == {"Scalar", "Vec3"}

\* f32::to_string / "{}" of an f32 whose double is the integer h.
FmtF32(h) ==
    LET a == IF h < 0 THEN 0 - h ELSE h
        s == ToString(a \div 2) \o (IF a % 2 = 1 THEN ".5" ELSE "")
    IN  IF h < 0 THEN "-" \o s ELSE s

\* get_default_value with the fallback of a builtin default not matched on
\* the socket's type.
get_default_value_always_scalar(input_socket) ==
    IF input_socket.default.tag = "Ok"
    THEN input_socket.default.value
    ELSE Scalar(0)

get_default_value(input_socket) ==
    IF input_socket.default.tag = "Ok"
    THEN input_socket.default.value
    ELSE IF input_socket.ty = "Scalar" THEN Scalar(0) ELSE Vec3(0, 0, 0)

----------------------------------------------------------------------------
(* The socket type registry of app.rs (MyGraphState::default).             *)

MyNodeType ==
    { "MakeScalar", "AddScalar", "SubtractScalar", "MakeVector", "AddVector",
      "SubtractVector", "VectorTimesScalar", "NormalDirection", "LightDirection", "DotProduct",
      "Main", "FloatToVector3", "Clamp01Scalar", "Clamp01Vector", "FMAScalar",
      "FMAVector", "UV0", "MainTexure2D", "MatCapTexure2D", "ToonTexure2D" }

node_type_info_list ==
  <<
    <<"MakeScalar",
    [ label |-> "MakeScalar", categories |-> <<"Scalar">>,
      input_sockets |-> <<[name |-> "value", ty |-> "Scalar", default |-> [tag |-> "Ok", value |-> Scalar(0)]]>>,
      output_sockets |-> <<[name |-> "out", ty |-> "Scalar"]>> ]>>,
    <<"AddScalar",
    [ label |-> "AddScalar", categories |-> <<"Scalar">>,
      input_sockets |-> <<[name |-> "v1", ty |-> "Scalar", default |-> [tag |-> "Ok", value |-> Scalar(0)]],
                         [name |-> "v2", ty |-> "Scalar", default |-> [tag |-> "Ok", value |-> Scalar(0)]]>>,
      output_sockets |-> <<[name |-> "out", ty |-> "Scalar"]>> ]>>,
    <<"SubtractScalar",
    [ label |-> "SubtractScalar", categories |-> <<"Scalar">>,
      input_sockets |-> <<[name |-> "v1", ty |-> "Scalar", default |-> [tag |-> "Ok", value |-> Scalar(2)]],
                         [name |-> "v2", ty |-> "Scalar", default |-> [tag |-> "Ok", value |-> Scalar(0)]]>>,
      output_sockets |-> <<[name |-> "out", ty |-> "Scalar"]>> ]>>,
    <<"MakeVector",
    [ label |-> "MakeVector", categories |-> <<"VectorOperations">>,
      input_sockets |-> <<[name |-> "x", ty |-> "Scalar", default |-> [tag |-> "Ok", value |-> Scalar(0)]],
                         [name |-> "y", ty |-> "Scalar", default |-> [tag |-> "Ok", value |-> Scalar(0)]],
                         [name |-> "z", ty |-> "Scalar", default |-> [tag |-> "Ok", value |-> Scalar(0)]]>>,
      output_sockets |-> <<[name |-> "out", ty |-> "Vec3"]>> ]>>,
    <<"AddVector",
    [ label |-> "AddVector", categories |-> <<"VectorOperations">>,
      input_sockets |-> <<[name |-> "v1", ty |-> "Vec3", default |-> [tag |-> "Ok", value |-> Vec3(0, 0, 0)]],
                         [name |-> "v2", ty |-> "Vec3", default |-> [tag |-> "Ok", value |-> Vec3(0, 0, 0)]]>>,
      output_sockets |-> <<[name |-> "out", ty |-> "Vec3"]>> ]>>,
    <<"SubtractVector",
    [ label |-> "SubtractVector", categories |-> <<"VectorOperations">>,
      input_sockets |-> <<[name |-> "v1", ty |-> "Vec3", default |-> [tag |-> "Ok", value |-> Vec3(2, 2, 2)]],
                         [name |-> "v2", ty |-> "Vec3", default |-> [tag |-> "Ok", value |-> Vec3(0, 0, 0)]]>>,
      output_sockets |-> <<[name |-> "out", ty |-> "Vec3"]>> ]>>,
    <<"VectorTimesScalar",
    [ label |-> "VectorTimesScalar", categories |-> <<"VectorOperations">>,
      input_sockets |-> <<[name |-> "vector", ty |-> "Vec3", default |-> [tag |-> "Ok", value |-> Vec3(0, 0, 0)]],
                         [name |-> "scalar", ty |-> "Scalar", default |-> [tag |-> "Ok", value |-> Scalar(0)]]>>,
      output_sockets |-> <<[name |-> "out", ty |-> "Vec3"]>> ]>>,
    <<"NormalDirection",
    [ label |-> "NormalDirection", categories |-> <<"GeometryData">>,
      input_sockets |-> <<>>,
      output_sockets |-> <<[name |-> "out", ty |-> "Vec3"]>> ]>>,
    <<"UV0",
    [ label |-> "UV0", categories |-> <<"GeometryData">>,
      input_sockets |-> <<>>,
      output_sockets |-> <<[name |-> "out", ty |-> "Vec3"]>> ]>>,
    <<"MainTexure2D",
    [ label |-> "MainTexure2D", categories |-> <<"Main">>,
      input_sockets |-> <<[name |-> "uv", ty |-> "Vec3", default |-> [tag |-> "Err", text |-> "vso.uv"]]>>,
      output_sockets |-> <<[name |-> "out", ty |-> "Vec3"], [name |-> "alpha", ty |-> "Scalar"]>> ]>>,
    <<"MatCapTexure2D",
    [ label |-> "MatCapTexure2D", categories |-> <<"Main">>,
      input_sockets |-> <<[name |-> "uv", ty |-> "Vec3", default |-> [tag |-> "Ok", value |-> Vec3(0, 0, 0)]]>>,
      output_sockets |-> <<[name |-> "out", ty |-> "Vec3"], [name |-> "alpha", ty |-> "Scalar"]>> ]>>,
    <<"ToonTexure2D",
    [ label |-> "ToonTexure2D", categories |-> <<"Main">>,
      input_sockets |-> <<[name |-> "uv", ty |-> "Vec3", default |-> [tag |-> "Ok", value |-> Vec3(0, 0, 0)]]>>,
      output_sockets |-> <<[name |-> "out", ty |-> "Vec3"], [name |-> "alpha", ty |-> "Scalar"]>> ]>>,
    <<"LightDirection",
    [ label |-> "LightDirection", categories |-> <<"Lighting">>,
      input_sockets |-> <<>>,
      output_sockets |-> <<[name |-> "out", ty |-> "Vec3"]>> ]>>,
    <<"DotProduct",
    [ label |-> "DotProduct", categories |-> <<"VectorOperations">>,
      input_sockets |-> <<[name |-> "v1", ty |-> "Vec3", default |-> [tag |-> "Ok", value |-> Vec3(0, 0, 0)]],
                         [name |-> "v2", ty |-> "Vec3", default |-> [tag |-> "Ok", value |-> Vec3(0, 0, 0)]]>>,
      output_sockets |-> <<[name |-> "out", ty |-> "Scalar"]>> ]>>,
    <<"Main",
    [ label |-> "Main", categories |-> <<"Main">>,
      input_sockets |-> <<[name |-> "color", ty |-> "Vec3", default |-> [tag |-> "Ok", value |-> Vec3(0, 0, 0)]],
                         [name |-> "alpha", ty |-> "Scalar", default |-> [tag |-> "Ok", value |-> Scalar(2)]]>>,
      output_sockets |-> <<>> ]>>,
    <<"FloatToVector3",
    [ label |-> "FloatToVector3", categories |-> <<"VectorOperations">>,
      input_sockets |-> <<[name |-> "value", ty |-> "Scalar", default |-> [tag |-> "Ok", value |-> Scalar(0)]]>>,
      output_sockets |-> <<[name |-> "out", ty |-> "Vec3"]>> ]>>,
    <<"Clamp01Scalar",
    [ label |-> "Clamp01Scalar", categories |-> <<"Arithmetic">>,
      input_sockets |-> <<[name |-> "value", ty |-> "Scalar", default |-> [tag |-> "Ok", value |-> Scalar(0)]]>>,
      output_sockets |-> <<[name |-> "out", ty |-> "Scalar"]>> ]>>,
    <<"Clamp01Vector",
    [ label |-> "Clamp01Vector", categories |-> <<"Arithmetic">>,
      input_sockets |-> <<[name |-> "value", ty |-> "Vec3", default |-> [tag |-> "Ok", value |-> Vec3(0, 0, 0)]]>>,
      output_sockets |-> <<[name |-> "out", ty |-> "Vec3"]>> ]>>,
    <<"FMAScalar",
    [ label |-> "FMAScalar", categories |-> <<"Arithmetic">>,
      input_sockets |-> <<[name |-> "a", ty |-> "Scalar", default |-> [tag |-> "Ok", value |-> Scalar(0)]],
                         [name |-> "b", ty |-> "Scalar", default |-> [tag |-> "Ok", value |-> Scalar(1)]],
                         [name |-> "c", ty |-> "Scalar", default |-> [tag |-> "Ok", value |-> Scalar(1)]]>>,
      output_sockets |-> <<[name |-> "out", ty |-> "Scalar"]>> ]>>,
    <<"FMAVector",
    [ label |-> "FMAVector", categories |-> <<"Arithmetic">>,
      input_sockets |-> <<[name |-> "a", ty |-> "Vec3", default |-> [tag |-> "Ok", value |-> Vec3(0, 0, 0)]],
                         [name |-> "b", ty |-> "Vec3", default |-> [tag |-> "Ok", value |-> Vec3(1, 1, 1)]],
                         [name |-> "c", ty |-> "Vec3", default |-> [tag |-> "Ok", value |-> Vec3(1, 1, 1)]]>>,
      output_sockets |-> <<[name |-> "out", ty |-> "Vec3"]>> ]>>
  >>

\* HashMap::from(array of (key, value)): a later pair of a key replaces an
\* earlier one.
HashMap_from(pairs) ==
    [key \in {pairs[i][1] : i \in DOMAIN pairs} |->
        pairs[CHOOSE i \in DOMAIN pairs :
                /\ pairs[i][1] = key
                /\ \A i2 \in DOMAIN pairs : pairs[i2][1] = key => i2 <= i][2]]

\* The registry with the entry of Main lost.
node_type_infos_without_Main ==
    HashMap_from(SelectSeq(node_type_info_list, LAMBDA pair : pair[1] # "Main"))

\* MyGraphState::default().node_type_infos
node_type_infos == HashMap_from(node_type_info_list)

----------------------------------------------------------------------------
(* The node kinds and the registry of types.rs (NODE_TYPE_INFOS).          *)

TypesMyNodeType ==
    { "MakeScalar", "Add", "Sub", "MakeVector", "Add3",
      "Sub3", "VectorTimesScalar", "NrmWS", "NrmVS", "FaceNrmWS",
      "LightDirWS", "DotProduct", "Main", "FloatToVector3", "Saturate",
      "Saturate3", "FMA", "FMA3", "Pow", "Pow3",
      "Sqrt", "UV0", "MainTexure2D", "MatCapTexure2D", "ToonTexure2D",
      "CustomTexture2D", "Step", "SmoothStep", "ScreenPos", "PosWS",
      "CameraPos", "Depth", "Fresnel", "ViewDirWS", "Max",
      "Min", "Mul", "Mul3", "Div", "Sin",
      "Cos", "Lerp", "Lerp3", "Normalize", "MatAlpha",
      "Reflect", "HalfDirection", "ComponentMask", "VSPosWS", "VSUV0",
      "VSNrmWS", "TimeSync", "TimeFree", "Route", "Route3",
      "RgbToHsv", "HsvToRgb", "AdjustHsv" }

NODE_TYPE_INFO_LIST ==
  <<
    <<"TimeSync",
    [ label |-> "TimeSync", categories |-> <<"Scalar">>,
      input_sockets |-> <<>>,
      output_sockets |-> <<[name |-> "out", ty |-> "Scalar"]>> ]>>,
    <<"TimeFree",
    [ label |-> "TimeFree", categories |-> <<"Scalar">>,
      input_sockets |-> <<>>,
      output_sockets |-> <<[name |-> "out", ty |-> "Scalar"]>> ]>>,
    <<"MakeScalar",
    [ label |-> "MakeScalar", categories |-> <<"Scalar">>,
      input_sockets |-> <<[name |-> "value", ty |-> "Scalar", default |-> [tag |-> "Ok", value |-> Scalar(0)]]>>,
      output_sockets |-> <<[name |-> "out", ty |-> "Scalar"]>> ]>>,
    <<"Add",
    [ label |-> "Add", categories |-> <<"Scalar">>,
      input_sockets |-> <<[name |-> "v1", ty |-> "Scalar", default |-> [tag |-> "Ok", value |-> Scalar(0)]],
                         [name |-> "v2", ty |-> "Scalar", default |-> [tag |-> "Ok", value |-> Scalar(0)]]>>,
      output_sockets |-> <<[name |-> "out", ty |-> "Scalar"]>> ]>>,
    <<"Pow",
    [ label |-> "Pow", categories |-> <<"Scalar">>,
      input_sockets |-> <<[name |-> "x", ty |-> "Scalar", default |-> [tag |-> "Ok", value |-> Scalar(0)]],
                         [name |-> "y", ty |-> "Scalar", default |-> [tag |-> "Ok", value |-> Scalar(2)]]>>,
      output_sockets |-> <<[name |-> "out", ty |-> "Scalar"]>> ]>>,
    <<"Pow3",
    [ label |-> "Pow3", categories |-> <<"Scalar">>,
      input_sockets |-> <<[name |-> "x", ty |-> "Vec3", default |-> [tag |-> "Ok", value |-> Vec3(0, 0, 0)]],
                         [name |-> "y", ty |-> "Scalar", default |-> [tag |-> "Ok", value |-> Scalar(2)]]>>,
      output_sockets |-> <<[name |-> "out", ty |-> "Vec3"]>> ]>>,
    <<"Sqrt",
    [ label |-> "Sqrt", categories |-> <<"Scalar">>,
      input_sockets |-> <<[name |-> "x", ty |-> "Scalar", default |-> [tag |-> "Ok", value |-> Scalar(0)]]>>,
      output_sockets |-> <<[name |-> "out", ty |-> "Scalar"]>> ]>>,
    <<"Sub",
    [ label |-> "Sub", categories |-> <<"Scalar">>,
      input_sockets |-> <<[name |-> "v1", ty |-> "Scalar", default |-> [tag |-> "Ok", value |-> Scalar(2)]],
                         [name |-> "v2", ty |-> "Scalar", default |-> [tag |-> "Ok", value |-> Scalar(0)]]>>,
      output_sockets |-> <<[name |-> "out", ty |-> "Scalar"]>> ]>>,
    <<"MakeVector",
    [ label |-> "MakeVector", categories |-> <<"VectorOperations">>,
      input_sockets |-> <<[name |-> "x", ty |-> "Scalar", default |-> [tag |-> "Ok", value |-> Scalar(0)]],
                         [name |-> "y", ty |-> "Scalar", default |-> [tag |-> "Ok", value |-> Scalar(0)]],
                         [name |-> "z", ty |-> "Scalar", default |-> [tag |-> "Ok", value |-> Scalar(0)]]>>,
      output_sockets |-> <<[name |-> "out", ty |-> "Vec3"]>> ]>>,
    <<"Add3",
    [ label |-> "Add3", categories |-> <<"VectorOperations">>,
      input_sockets |-> <<[name |-> "v1", ty |-> "Vec3", default |-> [tag |-> "Ok", value |-> Vec3(0, 0, 0)]],
                         [name |-> "v2", ty |-> "Vec3", default |-> [tag |-> "Ok", value |-> Vec3(0, 0, 0)]]>>,
      output_sockets |-> <<[name |-> "out", ty |-> "Vec3"]>> ]>>,
    <<"Sub3",
    [ label |-> "Sub3", categories |-> <<"VectorOperations">>,
      input_sockets |-> <<[name |-> "v1", ty |-> "Vec3", default |-> [tag |-> "Ok", value |-> Vec3(2, 2, 2)]],
                         [name |-> "v2", ty |-> "Vec3", default |-> [tag |-> "Ok", value |-> Vec3(0, 0, 0)]]>>,
      output_sockets |-> <<[name |-> "out", ty |-> "Vec3"]>> ]>>,
    <<"VectorTimesScalar",
    [ label |-> "VectorTimesScalar", categories |-> <<"VectorOperations">>,
      input_sockets |-> <<[name |-> "vector", ty |-> "Vec3", default |-> [tag |-> "Ok", value |-> Vec3(0, 0, 0)]],
                         [name |-> "scalar", ty |-> "Scalar", default |-> [tag |-> "Ok", value |-> Scalar(0)]]>>,
      output_sockets |-> <<[name |-> "out", ty |-> "Vec3"]>> ]>>,
    <<"NrmWS",
    [ label |-> "NrmWS", categories |-> <<"GeometryData">>,
      input_sockets |-> <<>>,
      output_sockets |-> <<[name |-> "out", ty |-> "Vec3"]>> ]>>,
    <<"NrmVS",
    [ label |-> "NrmVS", categories |-> <<"GeometryData">>,
      input_sockets |-> <<>>,
      output_sockets |-> <<[name |-> "out", ty |-> "Vec3"]>> ]>>,
    <<"FaceNrmWS",
    [ label |-> "FaceNrmWS", categories |-> <<"GeometryData">>,
      input_sockets |-> <<>>,
      output_sockets |-> <<[name |-> "out", ty |-> "Vec3"]>> ]>>,
    <<"UV0",
    [ label |-> "UV0", categories |-> <<"GeometryData">>,
      input_sockets |-> <<>>,
      output_sockets |-> <<[name |-> "out", ty |-> "Vec3"]>> ]>>,
    <<"MainTexure2D",
    [ label |-> "MainTexure2D", categories |-> <<"Main">>,
      input_sockets |-> <<[name |-> "uv", ty |-> "Vec3", default |-> [tag |-> "Err", text |-> "vso.uv"]]>>,
      output_sockets |-> <<[name |-> "out", ty |-> "Vec3"], [name |-> "alpha", ty |-> "Scalar"]>> ]>>,
    <<"MatCapTexure2D",
    [ label |-> "MatCapTexure2D", categories |-> <<"Main">>,
      input_sockets |-> <<[name |-> "uv", ty |-> "Vec3", default |-> [tag |-> "Ok", value |-> Vec3(0, 0, 0)]]>>,
      output_sockets |-> <<[name |-> "out", ty |-> "Vec3"], [name |-> "alpha", ty |-> "Scalar"]>> ]>>,
    <<"ToonTexure2D",
    [ label |-> "ToonTexure2D", categories |-> <<"Main">>,
      input_sockets |-> <<[name |-> "uv", ty |-> "Vec3", default |-> [tag |-> "Ok", value |-> Vec3(0, 0, 0)]]>>,
      output_sockets |-> <<[name |-> "out", ty |-> "Vec3"], [name |-> "alpha", ty |-> "Scalar"]>> ]>>,
    <<"CustomTexture2D",
    [ label |-> "CustomTexture2D", categories |-> <<"Main">>,
      input_sockets |-> <<[name |-> "uv", ty |-> "Vec3", default |-> [tag |-> "Err", text |-> "vso.uv"]]>>,
      output_sockets |-> <<[name |-> "out", ty |-> "Vec3"], [name |-> "r", ty |-> "Scalar"], [name |-> "g", ty |-> "Scalar"], [name |-> "b", ty |-> "Scalar"], [name |-> "alpha", ty |-> "Scalar"]>> ]>>,
    <<"RgbToHsv",
    [ label |-> "RgbToHsv", categories |-> <<"Utility">>,
      input_sockets |-> <<[name |-> "rgb", ty |-> "Vec3", default |-> [tag |-> "Ok", value |-> Vec3(0, 0, 0)]]>>,
      output_sockets |-> <<[name |-> "out", ty |-> "Vec3"], [name |-> "h", ty |-> "Scalar"], [name |-> "s", ty |-> "Scalar"], [name |-> "v", ty |-> "Scalar"]>> ]>>,
    <<"HsvToRgb",
    [ label |-> "HsvToRgb", categories |-> <<"Utility">>,
      input_sockets |-> <<[name |-> "h", ty |-> "Scalar", default |-> [tag |-> "Ok", value |-> Scalar(0)]],
                         [name |-> "s", ty |-> "Scalar", default |-> [tag |-> "Ok", value |-> Scalar(0)]],
                         [name |-> "v", ty |-> "Scalar", default |-> [tag |-> "Ok", value |-> Scalar(0)]]>>,
      output_sockets |-> <<[name |-> "out", ty |-> "Vec3"]>> ]>>,
    <<"AdjustHsv",
    [ label |-> "AdjustHsv", categories |-> <<"Utility">>,
      input_sockets |-> <<[name |-> "rgb", ty |-> "Vec3", default |-> [tag |-> "Ok", value |-> Vec3(0, 0, 0)]],
                         [name |-> "h", ty |-> "Scalar", default |-> [tag |-> "Ok", value |-> Scalar(0)]],
                         [name |-> "s", ty |-> "Scalar", default |-> [tag |-> "Ok", value |-> Scalar(2)]],
                         [name |-> "v", ty |-> "Scalar", default |-> [tag |-> "Ok", value |-> Scalar(2)]]>>,
      output_sockets |-> <<[name |-> "out", ty |-> "Vec3"]>> ]>>,
    <<"LightDirWS",
    [ label |-> "LightDirWS", categories |-> <<"Lighting">>,
      input_sockets |-> <<>>,
      output_sockets |-> <<[name |-> "out", ty |-> "Vec3"]>> ]>>,
    <<"DotProduct",
    [ label |-> "DotProduct", categories |-> <<"VectorOperations">>,
      input_sockets |-> <<[name |-> "v1", ty |-> "Vec3", default |-> [tag |-> "Ok", value |-> Vec3(0, 0, 0)]],
                         [name |-> "v2", ty |-> "Vec3", default |-> [tag |-> "Ok", value |-> Vec3(0, 0, 0)]]>>,
      output_sockets |-> <<[name |-> "out", ty |-> "Scalar"]>> ]>>,
    <<"Main",
    [ label |-> "Main", categories |-> <<"Main">>,
      input_sockets |-> <<[name |-> "color", ty |-> "Vec3", default |-> [tag |-> "Ok", value |-> Vec3(0, 0, 0)]],
                         [name |-> "alpha", ty |-> "Scalar", default |-> [tag |-> "Err", text |-> "MatAlpha()"]],
                         [name |-> "posWS", ty |-> "Vec3", default |-> [tag |-> "Err", text |-> "pos.xyz"]],
                         [name |-> "nrmWS", ty |-> "Vec3", default |-> [tag |-> "Err", text |-> "normal"]]>>,
      output_sockets |-> <<>> ]>>,
    <<"FloatToVector3",
    [ label |-> "FloatToVector3", categories |-> <<"VectorOperations">>,
      input_sockets |-> <<[name |-> "value", ty |-> "Scalar", default |-> [tag |-> "Ok", value |-> Scalar(0)]]>>,
      output_sockets |-> <<[name |-> "out", ty |-> "Vec3"]>> ]>>,
    <<"Saturate",
    [ label |-> "Saturate", categories |-> <<"Arithmetic">>,
      input_sockets |-> <<[name |-> "value", ty |-> "Scalar", default |-> [tag |-> "Ok", value |-> Scalar(0)]]>>,
      output_sockets |-> <<[name |-> "out", ty |-> "Scalar"]>> ]>>,
    <<"Saturate3",
    [ label |-> "Saturate3", categories |-> <<"Arithmetic">>,
      input_sockets |-> <<[name |-> "value", ty |-> "Vec3", default |-> [tag |-> "Ok", value |-> Vec3(0, 0, 0)]]>>,
      output_sockets |-> <<[name |-> "out", ty |-> "Vec3"]>> ]>>,
    <<"FMA",
    [ label |-> "FMA", categories |-> <<"Arithmetic">>,
      input_sockets |-> <<[name |-> "a", ty |-> "Scalar", default |-> [tag |-> "Ok", value |-> Scalar(0)]],
                         [name |-> "b", ty |-> "Scalar", default |-> [tag |-> "Ok", value |-> Scalar(1)]],
                         [name |-> "c", ty |-> "Scalar", default |-> [tag |-> "Ok", value |-> Scalar(1)]]>>,
      output_sockets |-> <<[name |-> "out", ty |-> "Scalar"]>> ]>>,
    <<"FMA3",
    [ label |-> "FMA3", categories |-> <<"Arithmetic">>,
      input_sockets |-> <<[name |-> "a", ty |-> "Vec3", default |-> [tag |-> "Ok", value |-> Vec3(0, 0, 0)]],
                         [name |-> "b", ty |-> "Vec3", default |-> [tag |-> "Ok", value |-> Vec3(1, 1, 1)]],
                         [name |-> "c", ty |-> "Vec3", default |-> [tag |-> "Ok", value |-> Vec3(1, 1, 1)]]>>,
      output_sockets |-> <<[name |-> "out", ty |-> "Vec3"]>> ]>>,
    <<"Step",
    [ label |-> "Step", categories |-> <<"Arithmetic">>,
      input_sockets |-> <<[name |-> "edge", ty |-> "Scalar", default |-> [tag |-> "Ok", value |-> Scalar(0)]],
                         [name |-> "x", ty |-> "Scalar", default |-> [tag |-> "Ok", value |-> Scalar(0)]]>>,
      output_sockets |-> <<[name |-> "out", ty |-> "Scalar"]>> ]>>,
    <<"SmoothStep",
    [ label |-> "SmoothStep", categories |-> <<"Arithmetic">>,
      input_sockets |-> <<[name |-> "min", ty |-> "Scalar", default |-> [tag |-> "Ok", value |-> Scalar(0)]],
                         [name |-> "max", ty |-> "Scalar", default |-> [tag |-> "Ok", value |-> Scalar(2)]],
                         [name |-> "x", ty |-> "Scalar", default |-> [tag |-> "Ok", value |-> Scalar(0)]]>>,
      output_sockets |-> <<[name |-> "out", ty |-> "Scalar"]>> ]>>,
    <<"Lerp",
    [ label |-> "Lerp", categories |-> <<"Arithmetic">>,
      input_sockets |-> <<[name |-> "a", ty |-> "Scalar", default |-> [tag |-> "Ok", value |-> Scalar(0)]],
                         [name |-> "b", ty |-> "Scalar", default |-> [tag |-> "Ok", value |-> Scalar(2)]],
                         [name |-> "t", ty |-> "Scalar", default |-> [tag |-> "Ok", value |-> Scalar(0)]]>>,
      output_sockets |-> <<[name |-> "out", ty |-> "Scalar"]>> ]>>,
    <<"Lerp3",
    [ label |-> "Lerp3", categories |-> <<"Arithmetic">>,
      input_sockets |-> <<[name |-> "a", ty |-> "Vec3", default |-> [tag |-> "Ok", value |-> Vec3(0, 0, 0)]],
                         [name |-> "b", ty |-> "Vec3", default |-> [tag |-> "Ok", value |-> Vec3(2, 2, 2)]],
                         [name |-> "t", ty |-> "Scalar", default |-> [tag |-> "Ok", value |-> Scalar(0)]]>>,
      output_sockets |-> <<[name |-> "out", ty |-> "Vec3"]>> ]>>,
    <<"ScreenPos",
    [ label |-> "ScreenPos", categories |-> <<"Arithmetic">>,
      input_sockets |-> <<>>,
      output_sockets |-> <<[name |-> "out", ty |-> "Vec3"]>> ]>>,
    <<"PosWS",
    [ label |-> "PosWS", categories |-> <<"Arithmetic">>,
      input_sockets |-> <<>>,
      output_sockets |-> <<[name |-> "out", ty |-> "Vec3"]>> ]>>,
    <<"CameraPos",
    [ label |-> "CameraPos", categories |-> <<"Arithmetic">>,
      input_sockets |-> <<>>,
      output_sockets |-> <<[name |-> "out", ty |-> "Vec3"]>> ]>>,
    <<"Depth",
    [ label |-> "Depth", categories |-> <<"Arithmetic">>,
      input_sockets |-> <<>>,
      output_sockets |-> <<[name |-> "out", ty |-> "Scalar"]>> ]>>,
    <<"MatAlpha",
    [ label |-> "MatAlpha", categories |-> <<"Arithmetic">>,
      input_sockets |-> <<>>,
      output_sockets |-> <<[name |-> "out", ty |-> "Scalar"]>> ]>>,
    <<"Normalize",
    [ label |-> "Normalize", categories |-> <<"Arithmetic">>,
      input_sockets |-> <<[name |-> "nrm", ty |-> "Vec3", default |-> [tag |-> "Ok", value |-> Vec3(0, 0, 0)]]>>,
      output_sockets |-> <<[name |-> "out", ty |-> "Vec3"]>> ]>>,
    <<"Fresnel",
    [ label |-> "Fresnel", categories |-> <<"Arithmetic">>,
      input_sockets |-> <<[name |-> "exp", ty |-> "Scalar", default |-> [tag |-> "Ok", value |-> Scalar(2)]]>>,
      output_sockets |-> <<[name |-> "out", ty |-> "Scalar"]>> ]>>,
    <<"Max",
    [ label |-> "Max", categories |-> <<"Arithmetic">>,
      input_sockets |-> <<[name |-> "a", ty |-> "Scalar", default |-> [tag |-> "Ok", value |-> Scalar(0)]],
                         [name |-> "b", ty |-> "Scalar", default |-> [tag |-> "Ok", value |-> Scalar(0)]]>>,
      output_sockets |-> <<[name |-> "out", ty |-> "Scalar"]>> ]>>,
    <<"Min",
    [ label |-> "Min", categories |-> <<"Arithmetic">>,
      input_sockets |-> <<[name |-> "a", ty |-> "Scalar", default |-> [tag |-> "Ok", value |-> Scalar(0)]],
                         [name |-> "b", ty |-> "Scalar", default |-> [tag |-> "Ok", value |-> Scalar(2)]]>>,
      output_sockets |-> <<[name |-> "out", ty |-> "Scalar"]>> ]>>,
    <<"Mul",
    [ label |-> "Mul", categories |-> <<"Arithmetic">>,
      input_sockets |-> <<[name |-> "a", ty |-> "Scalar", default |-> [tag |-> "Ok", value |-> Scalar(0)]],
                         [name |-> "b", ty |-> "Scalar", default |-> [tag |-> "Ok", value |-> Scalar(2)]]>>,
      output_sockets |-> <<[name |-> "out", ty |-> "Scalar"]>> ]>>,
    <<"Mul3",
    [ label |-> "Mul3", categories |-> <<"Arithmetic">>,
      input_sockets |-> <<[name |-> "a", ty |-> "Vec3", default |-> [tag |-> "Ok", value |-> Vec3(0, 0, 0)]],
                         [name |-> "b", ty |-> "Vec3", default |-> [tag |-> "Ok", value |-> Vec3(2, 2, 2)]]>>,
      output_sockets |-> <<[name |-> "out", ty |-> "Vec3"]>> ]>>,
    <<"Div",
    [ label |-> "Div", categories |-> <<"Arithmetic">>,
      input_sockets |-> <<[name |-> "a", ty |-> "Scalar", default |-> [tag |-> "Ok", value |-> Scalar(2)]],
                         [name |-> "b", ty |-> "Scalar", default |-> [tag |-> "Ok", value |-> Scalar(0)]]>>,
      output_sockets |-> <<[name |-> "out", ty |-> "Scalar"]>> ]>>,
    <<"Sin",
    [ label |-> "Sin", categories |-> <<"Arithmetic">>,
      input_sockets |-> <<[name |-> "v", ty |-> "Scalar", default |-> [tag |-> "Ok", value |-> Scalar(0)]]>>,
      output_sockets |-> <<[name |-> "out", ty |-> "Scalar"]>> ]>>,
    <<"Cos",
    [ label |-> "Cos", categories |-> <<"Arithmetic">>,
      input_sockets |-> <<[name |-> "v", ty |-> "Scalar", default |-> [tag |-> "Ok", value |-> Scalar(0)]]>>,
      output_sockets |-> <<[name |-> "out", ty |-> "Scalar"]>> ]>>,
    <<"Reflect",
    [ label |-> "Reflect", categories |-> <<"Arithmetic">>,
      input_sockets |-> <<[name |-> "I", ty |-> "Vec3", default |-> [tag |-> "Ok", value |-> Vec3(0, 0, 0)]],
                         [name |-> "N", ty |-> "Vec3", default |-> [tag |-> "Ok", value |-> Vec3(0, 0, 0)]]>>,
      output_sockets |-> <<[name |-> "out", ty |-> "Vec3"]>> ]>>,
    <<"ComponentMask",
    [ label |-> "ComponentMask", categories |-> <<"Arithmetic">>,
      input_sockets |-> <<[name |-> "vec", ty |-> "Vec3", default |-> [tag |-> "Ok", value |-> Vec3(0, 0, 0)]]>>,
      output_sockets |-> <<[name |-> "x", ty |-> "Scalar"], [name |-> "y", ty |-> "Scalar"], [name |-> "z", ty |-> "Scalar"]>> ]>>,
    <<"HalfDirection",
    [ label |-> "HalfDirection", categories |-> <<"Arithmetic">>,
      input_sockets |-> <<>>,
      output_sockets |-> <<[name |-> "out", ty |-> "Vec3"]>> ]>>,
    <<"ViewDirWS",
    [ label |-> "ViewDirWS", categories |-> <<"Arithmetic">>,
      input_sockets |-> <<>>,
      output_sockets |-> <<[name |-> "out", ty |-> "Vec3"]>> ]>>,
    <<"VSPosWS",
    [ label |-> "VSPosWS", categories |-> <<"VertexShader">>,
      input_sockets |-> <<>>,
      output_sockets |-> <<[name |-> "out", ty |-> "Vec3"]>> ]>>,
    <<"VSUV0",
    [ label |-> "VSUV0", categories |-> <<"VertexShader">>,
      input_sockets |-> <<>>,
      output_sockets |-> <<[name |-> "out", ty |-> "Vec3"]>> ]>>,
    <<"VSNrmWS",
    [ label |-> "VSNrmWS", categories |-> <<"VertexShader">>,
      input_sockets |-> <<>>,
      output_sockets |-> <<[name |-> "out", ty |-> "Vec3"]>> ]>>,
    <<"Route",
    [ label |-> "Route", categories |-> <<"Utility">>,
      input_sockets |-> <<[name |-> "v", ty |-> "Scalar", default |-> [tag |-> "Ok", value |-> Scalar(0)]]>>,
      output_sockets |-> <<[name |-> "out", ty |-> "Scalar"]>> ]>>,
    <<"Route3",
    [ label |-> "Route3", categories |-> <<"Utility">>,
      input_sockets |-> <<[name |-> "v", ty |-> "Vec3", default |-> [tag |-> "Ok", value |-> Vec3(0, 0, 0)]]>>,
      output_sockets |-> <<[name |-> "out", ty |-> "Vec3"]>> ]>>
  >>

\* NODE_TYPE_INFOS of types.rs
NODE_TYPE_INFOS == HashMap_from(NODE_TYPE_INFO_LIST)

\* InputSocketType::get_default_value of types.rs: the values there hold an
\* Option, and a socket with a builtin default gets the variant of its type
\* holding None.
types_get_default_value(input_socket) ==
    IF input_socket.default.tag = "Ok"
    THEN input_socket.default.value
    ELSE IF input_socket.ty = "Scalar"
         THEN [tag |-> "Scalar", none |-> TRUE]
         ELSE [tag |-> "Vec3", none |-> TRUE]

----------------------------------------------------------------------------
(* Helpers on sequences and functions.                                     *)

Range(s) == {s[i] : i \in DOMAIN s}

Contains(s, x) == \E i \in DOMAIN s : s[i] = x

Restrict(f, S) == [x \in S |-> f[x]]

EmptyMap == [x \in {} |-> x]

RECURSIVE Concat(_)
Concat(pieces) ==
    IF pieces = <<>> THEN "" ELSE Head(pieces) \o Concat(Tail(pieces))

----------------------------------------------------------------------------
(* The graph of the egui_node_graph library: slot maps of nodes, input     *)
(* and output parameters, and the connection map input -> output.          *)
(* Node keys are 1, 2, ...; a key is never handed out twice by one slot    *)
(* map (num_keys counts the keys handed out).  The j-th input parameter    *)
(* of node n has the key <<n, j>>, and so has its j-th output parameter    *)
(* in the slot map of outputs.                                             *)

EmptyGraph ==
    [nodes |-> EmptyMap, inputs |-> EmptyMap, outputs |-> EmptyMap,
     connections |-> EmptyMap, num_keys |-> 0]

input_ids(graph, node_id) ==
    [j \in DOMAIN graph.nodes[node_id].inputs |-> graph.nodes[node_id].inputs[j].id]

add_input_param(graph, node_id, name, typ, value) ==
    LET input_id == <<node_id, Len(graph.nodes[node_id].inputs) + 1>>
    IN  [graph EXCEPT
            !.inputs = (input_id :> [id |-> input_id, typ |-> typ, value |-> value,
                                     node |-> node_id]) @@ @,
            !.nodes[node_id].inputs = Append(@, [name |-> name, id |-> input_id])]

add_output_param(graph, node_id, name, typ) ==
    LET output_id == <<node_id, Len(graph.nodes[node_id].outputs) + 1>>
    IN  [graph EXCEPT
            !.outputs = (output_id :> [id |-> output_id, typ |-> typ, node |-> node_id]) @@ @,
            !.nodes[node_id].outputs = Append(@, [name |-> name, id |-> output_id])]

add_connection(graph, output_id, input_id) ==
    [graph EXCEPT !.connections = (input_id :> output_id) @@ Restrict(@, DOMAIN @ \ {input_id})]

remove_connection(graph, input_id) ==
    [graph EXCEPT !.connections = Restrict(@, DOMAIN @ \ {input_id})]

remove_node(graph, node_id) ==
    LET keep_in  == {i \in DOMAIN graph.inputs : graph.inputs[i].node # node_id}
        keep_out == {o \in DOMAIN graph.outputs : graph.outputs[o].node # node_id}
        keep_con == {i \in DOMAIN graph.connections :
                        i \in keep_in /\ graph.connections[i] \in keep_out}
    IN  [graph EXCEPT
            !.nodes = Restrict(@, DOMAIN @ \ {node_id}),
            !.inputs = Restrict(@, keep_in),
            !.outputs = Restrict(@, keep_out),
            !.connections = Restrict(@, keep_con)]

----------------------------------------------------------------------------
(* NodeTemplateTrait for MyNodeType, NodeTemplateIter for AllMyNodeTypes.  *)

all_kinds == MyNodeType

node_finder_label(kind, infos) == infos[kind].label

node_graph_label(kind, infos) == node_finder_label(kind, infos)

user_data(kind) == [template |-> kind]

RECURSIVE add_input_params(_, _, _, _)
add_input_params(graph, node_id, input_sockets, j) ==
    IF j > Len(input_sockets) THEN graph
    ELSE add_input_params(
            add_input_param(graph, node_id, input_sockets[j].name, input_sockets[j].ty,
                            get_default_value(input_sockets[j])),
            node_id, input_sockets, j + 1)

RECURSIVE add_output_params(_, _, _, _)
add_output_params(graph, node_id, output_sockets, k) ==
    IF k > Len(output_sockets) THEN graph
    ELSE add_output_params(
            add_output_param(graph, node_id, output_sockets[k].name, output_sockets[k].ty),
            node_id, output_sockets, k + 1)

\* build_node without the loop over the output sockets.
build_node_inputs_only(kind, graph, infos, node_id) ==
    add_input_params(graph, node_id, infos[kind].input_sockets, 1)

build_node(kind, graph, infos, node_id) ==
    add_output_params(
        add_input_params(graph, node_id, infos[kind].input_sockets, 1),
        node_id, infos[kind].output_sockets, 1)

\* Graph::add_node as the editor calls it for the kind picked in the finder.
add_node(graph, kind, infos) ==
    LET node_id == graph.num_keys + 1
        with_node ==
            [graph EXCEPT
                !.num_keys = node_id,
                !.nodes = (node_id :> [id |-> node_id,
                                       label |-> node_graph_label(kind, infos),
                                       inputs |-> <<>>, outputs |-> <<>>,
                                       user_data |-> user_data(kind)]) @@ @]
    IN  build_node(kind, with_node, infos, node_id)

----------------------------------------------------------------------------
(* postorder_traversal.                                                    *)
(*                                                                         *)
(* The result is [collect, status]: status is "ok", "index_panic" when     *)
(* graph[node_id] misses, or "stack_overflow".  A chain of nested calls    *)
(* holds pairwise distinct nodes unless the walk is inside a cycle (a node *)
(* on the call chain is not yet in collect, so meeting it again recurses   *)
(* again, without end); so a depth above the number of nodes is exactly    *)
(* the unbounded recursion.                                                *)

MaxDepth(graph) == Cardinality(DOMAIN graph.nodes)

RECURSIVE postorder_traversal(_, _, _, _)
RECURSIVE traverse_inputs(_, _, _, _, _)

\* traverse_inputs without the test `collect.contains(&next_nid)`.
traverse_inputs_revisiting(graph, node_id, j, res, depth) ==
    IF res.status # "ok" \/ j > Len(graph.nodes[node_id].inputs) THEN res
    ELSE
        LET input_id == input_ids(graph, node_id)[j]
        IN  IF input_id \in DOMAIN graph.connections
            THEN traverse_inputs(graph, node_id, j + 1,
                     postorder_traversal(graph,
                         graph.outputs[graph.connections[input_id]].node, res, depth + 1),
                     depth)
            ELSE traverse_inputs(graph, node_id, j + 1, res, depth)

\* traverse_inputs with the node of the input taken for the node of the
\* output (graph[input_id].node for graph[other_output_id].node).
traverse_inputs_own_node(graph, node_id, j, res, depth) ==
    IF res.status # "ok" \/ j > Len(graph.nodes[node_id].inputs) THEN res
    ELSE
        LET input_id == input_ids(graph, node_id)[j]
        IN  IF input_id \in DOMAIN graph.connections
            THEN LET next_nid == graph.inputs[input_id].node
                 IN  IF Contains(res.collect, next_nid)
                     THEN traverse_inputs(graph, node_id, j + 1, res, depth)
                     ELSE traverse_inputs(graph, node_id, j + 1,
                              postorder_traversal(graph, next_nid, res, depth + 1), depth)
            ELSE traverse_inputs(graph, node_id, j + 1, res, depth)

\* traverse_inputs with the inputs taken from the last to the first.
traverse_inputs_last_input_first(graph, node_id, j, res, depth) ==
    IF res.status # "ok" \/ j > Len(graph.nodes[node_id].inputs) THEN res
    ELSE
        LET input_id == input_ids(graph, node_id)[Len(graph.nodes[node_id].inputs) + 1 - j]
        IN  IF input_id \in DOMAIN graph.connections
            THEN LET other_output_id == graph.connections[input_id]
                     next_nid == graph.outputs[other_output_id].node
                 IN  IF Contains(res.collect, next_nid)
                     THEN traverse_inputs(graph, node_id, j + 1, res, depth)
                     ELSE traverse_inputs(graph, node_id, j + 1,
                              postorder_traversal(graph, next_nid, res, depth + 1), depth)
            ELSE traverse_inputs(graph, node_id, j + 1, res, depth)

\* postorder_traversal with `collect.push(node_id)` before the loop.
postorder_traversal_preorder(graph, node_id, res, depth) ==
    IF node_id \notin DOMAIN graph.nodes THEN [res EXCEPT !.status = "index_panic"]
    ELSE IF depth > MaxDepth(graph) THEN [res EXCEPT !.status = "stack_overflow"]
    ELSE traverse_inputs(graph, node_id, 1, [res EXCEPT !.collect = Append(@, node_id)], depth)

\* The loop `for input_id in graph[node_id].input_ids()`, from its j-th round.
traverse_inputs(graph, node_id, j, res, depth) ==
    IF res.status # "ok" \/ j > Len(graph.nodes[node_id].inputs) THEN res
    ELSE
        LET input_id == input_ids(graph, node_id)[j]
        IN  IF input_id \in DOMAIN graph.connections
            THEN LET other_output_id == graph.connections[input_id]
                     next_nid == graph.outputs[other_output_id].node
                 IN  IF Contains(res.collect, next_nid)
                     THEN traverse_inputs(graph, node_id, j + 1, res, depth)
                     ELSE traverse_inputs(graph, node_id, j + 1,
                              postorder_traversal(graph, next_nid, res, depth + 1), depth)
            ELSE traverse_inputs(graph, node_id, j + 1, res, depth)

postorder_traversal(graph, node_id, res, depth) ==
    IF node_id \notin DOMAIN graph.nodes THEN [res EXCEPT !.status = "index_panic"]
    ELSE IF depth > MaxDepth(graph) THEN [res EXCEPT !.status = "stack_overflow"]
    ELSE LET after == traverse_inputs(graph, node_id, 1, res, depth)
         IN  IF after.status = "ok"
             THEN [after EXCEPT !.collect = Append(@, node_id)]
             ELSE after

\* The call of code_gen: an empty Vec, the root, the outermost frame.
topological_order_of(graph, node_id) ==
    postorder_traversal(graph, node_id, [collect |-> <<>>, status |-> "ok"], 1)

----------------------------------------------------------------------------
(* code_gen.                                                               *)

\* indexs: node id -> position in the order (0-based, as enumerate() gives).
indexs_of(topological_order) ==
    [nid \in Range(topological_order) |->
        (CHOOSE i \in DOMAIN topological_order :
            /\ topological_order[i] = nid
            /\ \A i2 \in DOMAIN topological_order :
                  topological_order[i2] = nid => i2 <= i) - 1]

\* cg_node_names with the positions counted from 1.
cg_node_names_of_one_based(graph, topological_order) ==
    [i \in DOMAIN topological_order |->
        "_" \o ToString(i) \o "_" \o graph.nodes[topological_order[i]].label]

\* cg_node_names[i] = format!("_{}_{}", i, label), i 0-based (stored 1-based).
cg_node_names_of(graph, topological_order) ==
    [i \in DOMAIN topological_order |->
        "_" \o ToString(i - 1) \o "_" \o graph.nodes[topological_order[i]].label]

\* output_index_of with the scan left at its first round.
output_index_of_first_round(graph, next_nid, other_output_id) ==
    LET outputs == graph.nodes[next_nid].outputs
    IN  IF Len(outputs) > 0 /\ outputs[1].id = other_output_id THEN 0
        ELSE IF Len(outputs) > 0 THEN 0 ELSE -1

\* The scan of the producer's outputs: the 0-based position of the output
\* the connection starts from; -1 stands for usize::MAX (no match).
output_index_of(graph, next_nid, other_output_id) ==
    LET outputs == graph.nodes[next_nid].outputs
        hits == {k \in DOMAIN outputs : outputs[k].id = other_output_id}
    IN  IF hits = {} THEN -1
        ELSE (CHOOSE k \in hits : \A k2 \in hits : k2 <= k) - 1

FmtUsize(n) == IF n = -1 THEN "18446744073709551615" ELSE ToString(n)

FmtValue(value) ==
    IF value.tag = "Vec3"
    THEN "float3(" \o FmtF32(value.value[1]) \o ", " \o FmtF32(value.value[2])
         \o ", " \o FmtF32(value.value[3]) \o ")"
    ELSE FmtF32(value.value)

DataTypeText(ty) == IF ty = "Scalar" THEN "float " ELSE "float3"

\* arg_text with the builtin string of the registry ignored: an unconnected
\* input always gets its stored value.
arg_text_ignoring_builtin(graph, infos, indexs, cg_node_names, nid, j) ==
    LET input_id == input_ids(graph, nid)[j]
    IN  IF input_id \in DOMAIN graph.connections
        THEN LET other_output_id == graph.connections[input_id]
                 next_nid == graph.outputs[other_output_id].node
             IN  cg_node_names[indexs[next_nid] + 1] \o "_o"
                 \o FmtUsize(output_index_of(graph, next_nid, other_output_id))
        ELSE FmtValue(graph.inputs[input_id].value)

\* arg_text with the registry's default value emitted for an unconnected
\* input instead of the value stored in the graph.
arg_text_registry_default(graph, infos, indexs, cg_node_names, nid, j) ==
    LET input_id == input_ids(graph, nid)[j]
        input_sockets == infos[graph.nodes[nid].user_data.template].input_sockets
    IN  IF input_id \in DOMAIN graph.connections
        THEN LET other_output_id == graph.connections[input_id]
                 next_nid == graph.outputs[other_output_id].node
             IN  cg_node_names[indexs[next_nid] + 1] \o "_o"
                 \o FmtUsize(output_index_of(graph, next_nid, other_output_id))
        ELSE IF input_sockets[j].default.tag = "Ok"
             THEN FmtValue(input_sockets[j].default.value)
             ELSE input_sockets[j].default.text

\* What the j-th input of node nid adds to params (without the separator).
arg_text(graph, infos, indexs, cg_node_names, nid, j) ==
    LET input_id == input_ids(graph, nid)[j]
        input_sockets == infos[graph.nodes[nid].user_data.template].input_sockets
    IN  IF input_id \in DOMAIN graph.connections
        THEN LET other_output_id == graph.connections[input_id]
                 next_nid == graph.outputs[other_output_id].node
                 output_index == output_index_of(graph, next_nid, other_output_id)
                 index == indexs[next_nid]
             IN  cg_node_names[index + 1] \o "_o" \o FmtUsize(output_index)
        ELSE IF input_sockets[j].default.tag = "Ok"
             THEN FmtValue(graph.inputs[input_id].value)
             ELSE input_sockets[j].default.text

RECURSIVE input_params(_, _, _, _, _, _)
\* input_params with the separator put before the first argument too.
input_params_leading_separator(graph, infos, indexs, cg_node_names, nid, j) ==
    IF j > Len(graph.nodes[nid].inputs) THEN <<>>
    ELSE <<", ">>
         \o <<arg_text(graph, infos, indexs, cg_node_names, nid, j)>>
         \o input_params(graph, infos, indexs, cg_node_names, nid, j + 1)

\* The pieces appended to params by the loop over the inputs.
input_params(graph, infos, indexs, cg_node_names, nid, j) ==
    IF j > Len(graph.nodes[nid].inputs) THEN <<>>
    ELSE (IF j > 1 THEN <<", ">> ELSE <<>>)
         \o <<arg_text(graph, infos, indexs, cg_node_names, nid, j)>>
         \o input_params(graph, infos, indexs, cg_node_names, nid, j + 1)

\* The "ad hoc" trailing argument of a kind.
ad_hoc_params(my_node_type) ==
    IF my_node_type = "NormalDirection" THEN <<"vso.nrm">>
    ELSE IF my_node_type = "UV0" THEN <<"vso.uv">>
    ELSE <<>>

RECURSIVE out_params(_, _, _, _)
\* out_params with the loop `for k in 1..output_sockets.len() - 1`.
out_params_one_short(cg_node_name, n_outputs, k, is_first) ==
    IF k > n_outputs - 2 THEN <<>>
    ELSE (IF is_first THEN <<>> ELSE <<", ">>)
         \o <<cg_node_name \o "_o" \o ToString(k)>>
         \o out_params(cg_node_name, n_outputs, k + 1, FALSE)

\* The pieces appended to params by the loop `for k in 1..output_sockets.len()`;
\* is_first is still true there iff the node has no input.
out_params(cg_node_name, n_outputs, k, is_first) ==
    IF k > n_outputs - 1 THEN <<>>
    ELSE (IF is_first THEN <<>> ELSE <<", ">>)
         \o <<cg_node_name \o "_o" \o ToString(k)>>
         \o out_params(cg_node_name, n_outputs, k + 1, FALSE)

\* out_decls with the declarations numbered from 0.
out_decls_from_zero(cg_node_name, output_sockets) ==
    [k \in 1 .. (Len(output_sockets) - 1) |->
        DataTypeText(output_sockets[k + 1].ty) \o " " \o cg_node_name \o "_o"
        \o ToString(k - 1) \o ";"]

\* The declarations `{type} {name}_o{k};` of the outputs 1.. of a node.
out_decls(cg_node_name, output_sockets) ==
    [k \in 1 .. (Len(output_sockets) - 1) |->
        DataTypeText(output_sockets[k + 1].ty) \o " " \o cg_node_name \o "_o"
        \o ToString(k) \o ";"]

\* node_text with the return statement added after the call of every node
\* that has an output, not only after the last one.
node_text_return_after_every_node(graph, infos, topological_order, indexs, cg_node_names, i) ==
    LET nid == topological_order[i]
        label == graph.nodes[nid].label
        cg_node_name == cg_node_names[i]
        my_node_type == graph.nodes[nid].user_data.template
        output_sockets == infos[my_node_type].output_sockets
        ins == input_params(graph, infos, indexs, cg_node_names, nid, 1)
        is_first == Len(graph.nodes[nid].inputs) = 0
    IN  IF Len(output_sockets) > 0
        THEN LET params == Concat(ins \o ad_hoc_params(my_node_type)
                             \o out_params(cg_node_name, Len(output_sockets), 1, is_first))
                 output_type == output_sockets[1].ty
                 main_cmd == DataTypeText(output_type) \o " " \o cg_node_name \o "_o0 = "
                             \o label \o "(" \o params \o ");"
             IN  out_decls(cg_node_name, output_sockets)
                 \o <<main_cmd>>
                 \o (IF i <= Len(topological_order)
                     THEN IF output_type = "Scalar"
                          THEN <<"return float4(" \o cg_node_name \o "_o0, " \o cg_node_name
                                 \o "_o0, " \o cg_node_name \o "_o0, 1.0);">>
                          ELSE <<"return float4(" \o cg_node_name \o "_o0, 1.0);">>
                     ELSE <<>>)
        ELSE LET params == Concat(ins \o ad_hoc_params(my_node_type))
             IN  <<"return " \o label \o "(" \o params \o ");">>

\* The lines the i-th node of the order (1-based here) adds to text.
node_text(graph, infos, topological_order, indexs, cg_node_names, i) ==
    LET nid == topological_order[i]
        label == graph.nodes[nid].label
        cg_node_name == cg_node_names[i]
        my_node_type == graph.nodes[nid].user_data.template
        output_sockets == infos[my_node_type].output_sockets
        ins == input_params(graph, infos, indexs, cg_node_names, nid, 1)
        is_first == Len(graph.nodes[nid].inputs) = 0
    IN  IF Len(output_sockets) > 0
        THEN LET params == Concat(ins \o ad_hoc_params(my_node_type)
                             \o out_params(cg_node_name, Len(output_sockets), 1, is_first))
                 output_type == output_sockets[1].ty
                 main_cmd == DataTypeText(output_type) \o " " \o cg_node_name \o "_o0 = "
                             \o label \o "(" \o params \o ");"
             IN  out_decls(cg_node_name, output_sockets)
                 \o <<main_cmd>>
                 \o (IF i = Len(topological_order)
                     THEN IF output_type = "Scalar"
                          THEN <<"return float4(" \o cg_node_name \o "_o0, " \o cg_node_name
                                 \o "_o0, " \o cg_node_name \o "_o0, 1.0);">>
                          ELSE <<"return float4(" \o cg_node_name \o "_o0, 1.0);">>
                     ELSE <<>>)
        ELSE LET params == Concat(ins \o ad_hoc_params(my_node_type))
             IN  <<"return " \o label \o "(" \o params \o ");">>

\* `node_type_infos[&my_node_type]` misses for a node of the order.
registry_misses(graph, infos, topological_order) ==
    \E i \in DOMAIN topological_order :
        graph.nodes[topological_order[i]].user_data.template \notin DOMAIN infos

\* The other index expressions of the emission loop that can miss:
\* input_sockets[j] of an unconnected input, and indexs[&next_nid].
emission_panics(graph, infos, topological_order) ==
    \E i \in DOMAIN topological_order :
        LET nid == topological_order[i]
            my_node_type == graph.nodes[nid].user_data.template
        IN  \E j \in DOMAIN graph.nodes[nid].inputs :
                LET input_id == input_ids(graph, nid)[j]
                IN  IF input_id \in DOMAIN graph.connections
                    THEN graph.outputs[graph.connections[input_id]].node
                             \notin Range(topological_order)
                    ELSE j > Len(infos[my_node_type].input_sockets)

RECURSIVE emit_from(_, _, _, _, _, _)
emit_from(graph, infos, topological_order, indexs, cg_node_names, i) ==
    IF i > Len(topological_order) THEN <<>>
    ELSE node_text(graph, infos, topological_order, indexs, cg_node_names, i)
         \o emit_from(graph, infos, topological_order, indexs, cg_node_names, i + 1)

\* code_gen: [status, text]; text is the returned String when status = "ok".
code_gen(graph, node_id, infos) ==
    LET trav == topological_order_of(graph, node_id)
        topological_order == trav.collect
    IN  IF trav.status # "ok" THEN [status |-> trav.status, text |-> <<>>]
        ELSE IF registry_misses(graph, infos, topological_order)
        THEN [status |-> "registry_miss", text |-> <<>>]
        ELSE IF emission_panics(graph, infos, topological_order)
        THEN [status |-> "index_panic", text |-> <<>>]
        ELSE [status |-> "ok",
              text |-> emit_from(graph, infos, topological_order,
                                 indexs_of(topological_order),
                                 cg_node_names_of(graph, topological_order), 1)]

----------------------------------------------------------------------------
(* The boilerplate of hlsl.rs.  Each constant is modelled by the sequence  *)
(* of the sections its text holds; the sections that open or close the     *)
(* body of a shader function are what places a statement in a shader.      *)

\* Semantic variable and sampler declarations.
HLSL_0 == <<"<declarations>">>
\* struct VS_OUTPUT, the helper functions, and the head of Basic_VS up to
\* `float3 nrmWS = normal;` (the body of the vertex shader is left open).
HLSL_1 == <<"<struct VS_OUTPUT>", "<helper functions>", "<Basic_VS {>">>
\* The tail of Basic_VS, and the head of Basic_PS (its body is left open).
HLSL_2 == <<"<} Basic_VS>", "<Basic_PS {>">>
\* The closing brace of Basic_PS and the techniques.
HLSL_3 == <<"<} Basic_PS>", "<techniques>">>

----------------------------------------------------------------------------
(* Files.                                                                  *)

\* The functions HLSL_0 defines: it holds declarations of parameters,
\* textures and samplers only.
HLSL_0_functions == {}

\* The functions HLSL_1 defines in full, by name (the head of Basic_VS,
\* which HLSL_1 ends with, opens a definition that HLSL_2 closes).
HLSL_1_functions ==
    {"MakeVector", "TimeSync", "TimeFree", "NrmWS", "NrmVS", "FaceNrmWS",
     "UV0", "UV1", "LightDirWS", "DotProduct", "MakeScalar", "Pow", "Pow3",
     "Sqrt", "Add", "Sub", "Add3", "Sub3", "VectorTimesScalar", "Main",
     "FloatToVector3", "Saturate", "Saturate3", "FMA", "FMA3", "Step",
     "SmoothStep", "ScreenPos", "PosWS", "ViewDirWS", "Fresnel",
     "CameraPos", "Depth", "Normalize", "Min", "Max", "Mul", "Mul3", "Div",
     "Sin", "Cos", "Route", "Route3", "LinearToSrgb", "SrgbToLinear",
     "ToneMappingReinhard", "ControlObject", "ControlObject3", "Lerp",
     "Lerp3", "MainTexure2D", "MatCapTexure2D", "ToonTexure2D",
     "CustomTexture2D", "Hue", "HsvToRgb", "RgbToHsv", "AdjustHsv",
     "MatAlpha", "Reflect", "HalfDirection", "VertexPosWS", "VertexUV0",
     "VertexUV1", "VertexNrmWS", "SetPosNrm", "ComponentMask",
     "DistributionGGX", "GeometrySchlickGGX", "GeometrySmith",
     "FresnelSchlick", "LightPointRadiance", "PBR"}

\* The functions defined in the boilerplate save_fx_file puts around the
\* generated code.
HLSL_functions == HLSL_0_functions \cup HLSL_1_functions

\* ron::ser::to_string(&self.state) and ron::de::from_str: the document
\* holds the fields of the editor state, and nothing of user_state.
ron_to_string(editor_state) == [kind |-> "ron", ron |-> editor_state]

ron_from_str(contents) == contents.ron

\* save_fx_file without the early return on empty code.
save_fx_file_empty_code_too(code, fx_path, fs) ==
    IF fx_path # None
    THEN [fs EXCEPT ![fx_path] = [kind |-> "fx", text |-> HLSL_0 \o code \o HLSL_1]]
    ELSE fs

\* save_fx_file: the file system after it.
save_fx_file(code, fx_path, fs) ==
    IF code = <<>> THEN fs
    ELSE IF fx_path # None
         THEN [fs EXCEPT ![fx_path] = [kind |-> "fx", text |-> HLSL_0 \o code \o HLSL_1]]
         ELSE fs

\* save_graph: the file system after it.
save_graph(editor_state, ron_path, fs) ==
    IF ron_path # None
    THEN [fs EXCEPT ![ron_path] = ron_to_string(editor_state)]
    ELSE fs

----------------------------------------------------------------------------
(* The state after construction (#[derive(Default)] of NodeGraphExample).  *)

Init ==
    /\ state = [graph |-> EmptyGraph]
    /\ user_state = [active_node |-> NoNode]
    /\ core_gen_code = <<>>
    /\ path_buf = None
    /\ shader_path_buf = None
    /\ files = [p \in RonPaths \cup FxPaths |-> NoFile]
    /\ crashed = "no"
    /\ traversal = NoRun
    /\ hist = [event |-> "init", events |-> 0,
               saved_active |-> [p \in RonPaths |-> NoNode],
               loaded |-> [read |-> FALSE, active |-> NoNode]]

graph == state.graph

Running == crashed = "no"

----------------------------------------------------------------------------
(* The handler of a NodeResponse::User in update (lines 788-804): the      *)
(* match on the event gave new_active; editor_state is self.state after    *)
(* the editor was drawn.                                                   *)

\* on_user_response with the match on the event leaving active_node alone.
on_user_response_keeping_active(new_active, editor_state) ==
    /\ user_state' = user_state
    /\ IF new_active # NoNode
       THEN LET gen == code_gen(editor_state.graph, new_active, node_type_infos)
            IN  IF gen.status = "ok"
                THEN /\ core_gen_code' = gen.text
                     /\ files' = save_fx_file(gen.text, path_buf, files)
                     /\ crashed' = crashed
                ELSE /\ crashed' = gen.status
                     /\ UNCHANGED <<core_gen_code, files>>
       ELSE /\ core_gen_code' = <<>>
            /\ UNCHANGED <<files, crashed>>

\* on_user_response without the else branch that empties core_gen_code.
on_user_response_keeping_code(new_active, editor_state) ==
    /\ user_state' = [user_state EXCEPT !.active_node = new_active]
    /\ IF new_active # NoNode
       THEN LET gen == code_gen(editor_state.graph, new_active, node_type_infos)
            IN  IF gen.status = "ok"
                THEN /\ core_gen_code' = gen.text
                     /\ files' = save_fx_file(gen.text, path_buf, files)
                     /\ crashed' = crashed
                ELSE /\ crashed' = gen.status
                     /\ UNCHANGED <<core_gen_code, files>>
       ELSE UNCHANGED <<core_gen_code, files, crashed>>

on_user_response(new_active, editor_state) ==
    /\ user_state' = [user_state EXCEPT !.active_node = new_active]
    /\ IF new_active # NoNode
       THEN LET gen == code_gen(editor_state.graph, new_active, node_type_infos)
            IN  IF gen.status = "ok"
                THEN /\ core_gen_code' = gen.text
                     /\ files' = save_fx_file(gen.text, path_buf, files)
                     /\ crashed' = crashed
                ELSE /\ crashed' = gen.status
                     /\ UNCHANGED <<core_gen_code, files>>
       ELSE /\ core_gen_code' = <<>>
            /\ UNCHANGED <<files, crashed>>

\* Any other NodeResponse: the arm `_ => {}`.
on_other_response ==
    UNCHANGED <<user_state, core_gen_code, files, crashed>>

----------------------------------------------------------------------------
(* The events of the graph editor (draw_graph_editor) and their handling.  *)

\* The node finder draws the label of every kind of all_kinds(); the kind
\* picked in it is created and built.
CreateNode(kind) ==
    /\ Running
    /\ graph.num_keys < MaxNodes
    /\ IF \A k \in all_kinds : k \in DOMAIN node_type_infos
       THEN /\ state' = [state EXCEPT !.graph = add_node(@, kind, node_type_infos)]
            /\ on_other_response
       ELSE /\ crashed' = "registry_miss"
            /\ UNCHANGED <<state, user_state, core_gen_code, files>>
    /\ UNCHANGED <<path_buf, shader_path_buf>>

DeleteNode(node_id) ==
    /\ Running
    /\ node_id \in DOMAIN graph.nodes
    /\ state' = [state EXCEPT !.graph = remove_node(@, node_id)]
    /\ on_other_response
    /\ UNCHANGED <<path_buf, shader_path_buf>>

\* A connection is dropped on a port: the editor accepts it when the data
\* types are equal.
Connect(output_id, input_id) ==
    /\ Running
    /\ output_id \in DOMAIN graph.outputs
    /\ input_id \in DOMAIN graph.inputs
    /\ graph.outputs[output_id].typ = graph.inputs[input_id].typ
    /\ ~(input_id \in DOMAIN graph.connections /\ graph.connections[input_id] = output_id)
    /\ state' = [state EXCEPT !.graph = add_connection(@, output_id, input_id)]
    /\ on_other_response
    /\ UNCHANGED <<path_buf, shader_path_buf>>

Disconnect(input_id) ==
    /\ Running
    /\ input_id \in DOMAIN graph.connections
    /\ state' = [state EXCEPT !.graph = remove_connection(@, input_id)]
    /\ on_other_response
    /\ UNCHANGED <<path_buf, shader_path_buf>>

\* value_widget: a DragValue of an unconnected input is dragged to v; for a
\* Vec3 it is the DragValue of component c.
ValueChanged(input_id, c, v) ==
    /\ Running
    /\ input_id \in DOMAIN graph.inputs
    /\ input_id \notin DOMAIN graph.connections
    /\ LET old == graph.inputs[input_id].value
           new == IF old.tag = "Scalar" THEN Scalar(v)
                  ELSE [old EXCEPT !.value[c] = v]
       IN  /\ old.tag = "Scalar" => c = 1
           /\ new # old
           /\ state' = [state EXCEPT !.graph.inputs[input_id].value = new]
    /\ on_user_response(user_state.active_node, state')
    /\ UNCHANGED <<path_buf, shader_path_buf>>

\* bottom_ui: the button "Set active" of a node that is not the active one.
SetActiveNode(node_id) ==
    /\ Running
    /\ node_id \in DOMAIN graph.nodes
    /\ user_state.active_node # node_id
    /\ on_user_response(node_id, state)
    /\ UNCHANGED <<state, path_buf, shader_path_buf>>

\* bottom_ui: the button "Active" of the active node.
ClearActiveNode ==
    /\ Running
    /\ user_state.active_node \in DOMAIN graph.nodes
    /\ on_user_response(NoNode, state)
    /\ UNCHANGED <<state, path_buf, shader_path_buf>>

----------------------------------------------------------------------------
(* The buttons of the top panel.  pick is what the file dialog returns.    *)

\* LoadGraph without the call of save_graph.
LoadGraph_without_save(pick) ==
    /\ Running
    /\ pick = None \/ (pick \in RonPaths /\ files[pick].kind = "ron")
    /\ state' = IF pick # None THEN ron_from_str(files[pick]) ELSE state
    /\ UNCHANGED <<files, user_state, core_gen_code, path_buf, shader_path_buf, crashed>>

LoadGraph(pick) ==
    /\ Running
    /\ pick = None \/ (pick \in RonPaths /\ files[pick].kind = "ron")
    /\ state' = IF pick # None THEN ron_from_str(files[pick]) ELSE state
    /\ files' = save_graph(state', shader_path_buf, files)
    /\ UNCHANGED <<user_state, core_gen_code, path_buf, shader_path_buf, crashed>>

SaveGraph(pick) ==
    /\ Running
    /\ pick \in RonPaths \cup {None}
    /\ shader_path_buf' = IF shader_path_buf = None THEN pick ELSE shader_path_buf
    /\ files' = save_graph(state, shader_path_buf', files)
    /\ UNCHANGED <<state, user_state, core_gen_code, path_buf, crashed>>

SaveGraphAs(pick) ==
    /\ Running
    /\ pick \in RonPaths \cup {None}
    /\ shader_path_buf' = pick
    /\ files' = save_graph(state, shader_path_buf', files)
    /\ UNCHANGED <<state, user_state, core_gen_code, path_buf, crashed>>

SaveFx(pick) ==
    /\ Running
    /\ pick \in FxPaths \cup {None}
    /\ path_buf' = IF path_buf = None THEN pick ELSE path_buf
    /\ files' = save_fx_file(core_gen_code, path_buf', files)
    /\ UNCHANGED <<state, user_state, core_gen_code, shader_path_buf, crashed>>

SaveFxAs(pick) ==
    /\ Running
    /\ pick \in FxPaths \cup {None}
    /\ path_buf' = pick
    /\ files' = save_fx_file(core_gen_code, path_buf', files)
    /\ UNCHANGED <<state, user_state, core_gen_code, shader_path_buf, crashed>>

----------------------------------------------------------------------------

InputIds == (1 .. MaxNodes) \X (1 .. 3)
OutputIds == (1 .. MaxNodes) \X (1 .. 2)

\* The history of a run of the editor: the event handled last, the number of
\* events handled, the active node at the time save_graph last wrote the
\* .ron file, and for a Load Graph whether it read a file and which node was
\* active when that file was written.
LogWith(event, pick) ==
    /\ hist' = [event |-> event, events |-> hist.events + 1,
                saved_active |->
                    [p \in RonPaths |->
                        IF event \in {"LoadGraph", "SaveGraph", "SaveGraphAs"}
                           /\ shader_path_buf' = p
                        THEN user_state.active_node ELSE hist.saved_active[p]],
                loaded |->
                    IF event = "LoadGraph" /\ pick # None
                    THEN [read |-> TRUE, active |-> hist.saved_active[pick]]
                    ELSE [read |-> FALSE, active |-> NoNode]]
    /\ UNCHANGED traversal

Log(event) == LogWith(event, None)

Budget == hist.events < MaxEvents

Next ==
    \/ \E kind \in FinderKinds : Budget /\ CreateNode(kind) /\ Log("CreateNode")
    \/ \E node_id \in 1 .. MaxNodes : Budget /\ DeleteNode(node_id) /\ Log("DeleteNode")
    \/ \E output_id \in OutputIds, input_id \in InputIds :
          Budget /\ Connect(output_id, input_id) /\ Log("Connect")
    \/ \E input_id \in InputIds : Budget /\ Disconnect(input_id) /\ Log("Disconnect")
    \/ \E input_id \in InputIds, c \in 1 .. 3, v \in DragValues :
          Budget /\ ValueChanged(input_id, c, v) /\ Log("ValueChanged")
    \/ \E node_id \in 1 .. MaxNodes :
          Budget /\ SetActiveNode(node_id) /\ Log("SetActiveNode")
    \/ Budget /\ ClearActiveNode /\ Log("ClearActiveNode")
    \/ \E pick \in RonPaths \cup {None} : Budget /\ LoadGraph(pick) /\ LogWith("LoadGraph", pick)
    \/ \E pick \in RonPaths \cup {None} : Budget /\ SaveGraph(pick) /\ Log("SaveGraph")
    \/ \E pick \in RonPaths \cup {None} :
          Budget /\ SaveGraphAs(pick) /\ Log("SaveGraphAs")
    \/ \E pick \in FxPaths \cup {None} : Budget /\ SaveFx(pick) /\ Log("SaveFx")
    \/ \E pick \in FxPaths \cup {None} : Budget /\ SaveFxAs(pick) /\ Log("SaveFxAs")

Spec == Init /\ [][Next]_vars

----------------------------------------------------------------------------
(* postorder_traversal as a function of its inputs: the graphs of up to    *)
(* MaxNodes nodes of the kinds OrderKinds with up to MaxConnections        *)
(* connections (cycles included) are built by the editor's own operations, *)
(* and the traversal is run from any root.                                 *)

RunTraversal(node_id) ==
    /\ node_id \in DOMAIN graph.nodes
    /\ traversal' =
          [root |-> node_id] @@ topological_order_of(graph, node_id)
    /\ UNCHANGED <<state, user_state, core_gen_code, path_buf, shader_path_buf,
                   files, crashed, hist>>

Building ==
    /\ traversal = NoRun
    /\ UNCHANGED <<traversal, hist>>

NextOrder ==
    \/ \E kind \in OrderKinds : Building /\ CreateNode(kind)
    \/ \E output_id \in OutputIds, input_id \in InputIds :
          /\ Cardinality(DOMAIN graph.connections) < MaxConnections
          /\ Building /\ Connect(output_id, input_id)
    \/ \E node_id \in 1 .. MaxNodes : traversal = NoRun /\ RunTraversal(node_id)

SpecOrder == Init /\ [][NextOrder]_vars

----------------------------------------------------------------------------
(* Notions the properties are stated with; none of them is computed the    *)
(* way the program computes.                                               *)

\* The nodes that feed a connected input of node n.
Producers(g, n) ==
    {g.outputs[g.connections[i]].node :
        i \in {i \in DOMAIN g.connections : g.inputs[i].node = n}}

RECURSIVE Closure(_, _)
Closure(g, S) ==
    LET T == S \cup UNION {Producers(g, n) : n \in S}
    IN  IF T = S THEN S ELSE Closure(g, T)

\* The nodes reachable from root through connected inputs, root included.
Reachable(g, root) == Closure(g, {root})

\* The nodes reachable through the connected inputs of n (n itself only
\* when it lies on a cycle).
Upstream(g, n) == Closure(g, Producers(g, n))

Acyclic(g) == \A n \in DOMAIN g.nodes : n \notin Upstream(g, n)

Positions(order, n) == {i \in DOMAIN order : order[i] = n}

\* A traversal ran to its end on the graph, which is acyclic.
OrderBuilt == traversal.status = "ok" /\ Acyclic(graph)

----------------------------------------------------------------------------
(* C1: on an acyclic graph the order built by postorder_traversal holds    *)
(* exactly the nodes reachable from the root through connected inputs      *)
(* (root included), each exactly once; no other node appears in it.        *)
C1_OrderIsReachableSetOnce ==
    OrderBuilt =>
        /\ Range(traversal.collect) = Reachable(graph, traversal.root)
        /\ \A n \in Reachable(graph, traversal.root) :
              Cardinality(Positions(traversal.collect, n)) = 1

\* An order of two nodes or more, of a graph with a node that is reachable
\* through two connections and a node that is not reachable at all.
C1_Witness ==
    /\ OrderBuilt
    /\ Len(traversal.collect) >= 2
    /\ DOMAIN graph.nodes \ Range(traversal.collect) # {}
    /\ \E i1, i2 \in DOMAIN graph.connections :
          /\ i1 # i2
          /\ graph.outputs[graph.connections[i1]].node
               = graph.outputs[graph.connections[i2]].node
          /\ graph.inputs[i1].node \in Range(traversal.collect)
          /\ graph.inputs[i2].node \in Range(traversal.collect)

(* C2: in the order built on an acyclic graph every node reachable through *)
(* the connected inputs of a node N sits at a strictly smaller position    *)
(* than N.                                                                 *)
C2_ProducersBeforeConsumers ==
    OrderBuilt =>
        \A i \in DOMAIN traversal.collect :
            \A m \in Upstream(graph, traversal.collect[i]) :
                /\ Positions(traversal.collect, m) # {}
                /\ \A p \in Positions(traversal.collect, m) : p < i

\* A chain of three nodes was ordered: the root, its producer, and the
\* producer of that one.
C2_Witness ==
    /\ OrderBuilt
    /\ Len(traversal.collect) = 3
    /\ \E n \in Range(traversal.collect) :
          /\ n # traversal.root
          /\ Upstream(graph, n) # {}
          /\ n \in Upstream(graph, traversal.root)

(* C3: the last element of the order built on an acyclic graph is the      *)
(* root, and the root is at no other position.                             *)
C3_RootIsLastOnly ==
    OrderBuilt =>
        /\ Len(traversal.collect) >= 1
        /\ Positions(traversal.collect, traversal.root) = {Len(traversal.collect)}

\* The root was ordered after two other nodes, one of them feeding two of
\* the inputs met on the way.
C3_Witness ==
    /\ OrderBuilt
    /\ Len(traversal.collect) = 3
    /\ traversal.collect[3] = traversal.root
    /\ Cardinality(DOMAIN graph.connections) = 3

----------------------------------------------------------------------------
(* C5: while a node is active, the stored core_gen_code is the code of the *)
(* current graph and active node after every handled event; an edit of the *)
(* graph never leaves the code of an earlier graph behind.  (Stated for    *)
(* the states in which a generation for the active node ends normally.)    *)
C5_StoredCodeIsCurrent ==
    (/\ Running
     /\ user_state.active_node # NoNode
     /\ code_gen(graph, user_state.active_node, node_type_infos).status = "ok")
    => core_gen_code = code_gen(graph, user_state.active_node, node_type_infos).text

(* C6: no sequence of editor operations makes a handler panic.  Stated     *)
(* here for the acyclic graphs only, the ones the traversal is specified   *)
(* for: a crash on such a graph refutes the claim as it is written.        *)
C6_NeverPanicsOnAcyclicGraph ==
    Acyclic(graph) => crashed = "no"

(* C7: when the connection into an input is removed, the code generated    *)
(* next, from any root whose order holds the node of that input, has the   *)
(* socket's default text for it (the stored value of a literal default,    *)
(* the builtin string otherwise), which is no variable reference; and a    *)
(* former producer that the root no longer reaches is not emitted at all.  *)
DefaultText(g, input_id, j) ==
    LET socket == node_type_infos[g.nodes[input_id[1]].user_data.template].input_sockets[j]
    IN  IF socket.default.tag = "Ok"
        THEN FmtValue(g.inputs[input_id].value)
        ELSE socket.default.text

VariableNames(cg_node_names) ==
    {cg_node_names[p] \o "_o" \o FmtUsize(k) :
        p \in DOMAIN cg_node_names, k \in {-1, 0, 1}}

FallsBack(g, input_id, former, root) ==
    LET trav == topological_order_of(g, root)
        names == cg_node_names_of(g, trav.collect)
        nid == input_id[1]
        emitted == arg_text(g, node_type_infos, indexs_of(trav.collect), names,
                            nid, input_id[2])
    IN  (trav.status = "ok" /\ nid \in Range(trav.collect)) =>
            /\ emitted = DefaultText(g, input_id, input_id[2])
            /\ emitted \notin VariableNames(names)
            /\ former \notin Reachable(g, root) => former \notin Range(trav.collect)

C7_DisconnectFallsBackToDefault ==
    [][\A input_id \in InputIds :
          (/\ input_id \in DOMAIN graph.connections
           /\ input_id \in DOMAIN graph'.inputs
           /\ input_id \notin DOMAIN graph'.connections)
          => \A root \in DOMAIN graph'.nodes :
                FallsBack(graph', input_id,
                          graph.outputs[graph.connections[input_id]].node, root)]_vars

\* A connection into a node of the active node's order was just removed,
\* the input has a builtin default, and its former producer is still there.
C7_Witness ==
    /\ hist.event = "Disconnect"
    /\ Running
    /\ user_state.active_node \in DOMAIN graph.nodes
    /\ \E input_id \in DOMAIN graph.inputs :
          /\ input_id \notin DOMAIN graph.connections
          /\ input_id[1] \in Reachable(graph, user_state.active_node)
          /\ node_type_infos[graph.nodes[input_id[1]].user_data.template]
                .input_sockets[input_id[2]].default.tag = "Err"
    /\ Cardinality(DOMAIN graph.nodes) >= 2
    /\ core_gen_code # <<>>

(* C8: every kind of the enumeration MyNodeType (every kind all_kinds      *)
(* offers) has an entry in the registry, so no lookup by kind misses; the  *)
(* same holds of the enumeration and the NODE_TYPE_INFOS of types.rs.      *)
C8_RegistryIsTotal ==
    /\ \A kind \in all_kinds : kind \in DOMAIN node_type_infos
    /\ \A kind \in TypesMyNodeType : kind \in DOMAIN NODE_TYPE_INFOS
    /\ crashed # "registry_miss"

\* The finder was drawn, a node was created from its registry entry, and
\* code was generated for it.
C8_Witness ==
    /\ Running
    /\ \E n \in DOMAIN graph.nodes :
          /\ graph.nodes[n].user_data.template = "Main"
          /\ Len(graph.nodes[n].inputs) = 2
          /\ user_state.active_node = n
    /\ core_gen_code # <<>>

(* C9: Load Graph of a file written by save_graph restores the active node *)
(* that was selected when the file was written.                            *)
C9_LoadRestoresActiveNode ==
    (hist.event = "LoadGraph" /\ hist.loaded.read)
    => user_state.active_node = hist.loaded.active

(* C10: the effect file is header, generated sampler code, generated       *)
(* vertex code, generated pixel code, footer, so that the generated        *)
(* statements (the body of the pixel shader, core_gen_code being the only  *)
(* generated fragment of app.rs) stand in the body of Basic_PS: after the  *)
(* text that opens it (HLSL_0, HLSL_1, HLSL_2) and before the text that    *)
(* closes it (HLSL_3).                                                     *)
InPixelSlot(text) ==
    LET head == HLSL_0 \o HLSL_1 \o HLSL_2
    IN  /\ Len(text) >= Len(head) + Len(HLSL_3)
        /\ SubSeq(text, 1, Len(head)) = head
        /\ SubSeq(text, Len(text) - Len(HLSL_3) + 1, Len(text)) = HLSL_3

C10_GeneratedCodeInPixelSlot ==
    \A p \in FxPaths : files[p].kind = "fx" => InPixelSlot(files[p].text)

----------------------------------------------------------------------------
(* code_gen as a function of its inputs: a graph of up to MaxNodes nodes   *)
(* of the kinds GenKinds is built by the editor's own operations in the    *)
(* order create, connect, edit values (to the values GenValues), and is    *)
(* then generated from any root by Set active; the text it returns is what *)
(* the handler stores in core_gen_code.                                    *)

GenKinds == {"MakeScalar", "AddScalar", "MainTexure2D", "Main"}
\* 2.0 and 3.0, in halves.
GenValues == {4, 6}
\* The value the DragValue of an input is dragged to: 2.0 for the first
\* input of a node, 3.0 for the others.
GenValueOf(input_id) == IF input_id[2] = 1 THEN 4 ELSE 6
\* The component of a Vec3 whose DragValue is dragged.
GenComponents == {1}
\* the nodes of a graph of SpecGen
MaxGenNodes == 2
\* the events of one run of SpecGen
MaxGenEvents == 6

Rank(event) ==
    CASE event = "init" -> 0
      [] event = "CreateNode" -> 1
      [] event = "Connect" -> 2
      [] event = "ValueChanged" -> 3
      [] OTHER -> 4

GenStep(event) ==
    /\ hist.events < MaxGenEvents
    /\ Rank(hist.event) <= Rank(event)
    /\ Rank(hist.event) < 4

NextGen ==
    \/ \E kind \in GenKinds :
          /\ graph.num_keys < MaxGenNodes
          /\ GenStep("CreateNode") /\ CreateNode(kind) /\ Log("CreateNode")
    \/ \E output_id \in OutputIds, input_id \in InputIds :
          GenStep("Connect") /\ Connect(output_id, input_id) /\ Log("Connect")
    \/ \E input_id \in InputIds, c \in GenComponents, v \in GenValues :
          /\ GenStep("ValueChanged")
          /\ v = GenValueOf(input_id)
          /\ ValueChanged(input_id, c, v) /\ Log("ValueChanged")
    \/ \E node_id \in 1 .. MaxNodes :
          GenStep("SetActiveNode") /\ SetActiveNode(node_id) /\ Log("SetActiveNode")

SpecGen == Init /\ [][NextGen]_vars

----------------------------------------------------------------------------
\* A cycle of connections can be reached from root.
CycleReachable(g, root) == \E n \in Reachable(g, root) : n \in Upstream(g, n)

(* C11: for every acyclic graph and every root postorder_traversal and     *)
(* code_gen terminate: the run returns its order and its text.  (Stated    *)
(* for every graph with no cycle reachable from the root, the acyclic      *)
(* graphs among them.)                                                     *)
C11_TerminatesOnAcyclicGraph ==
    (traversal.status # "none" /\ ~CycleReachable(graph, traversal.root)) =>
        /\ traversal.status = "ok"
        /\ code_gen(graph, traversal.root, node_type_infos).status = "ok"

\* A traversal returned whose calls were nested as deep as the graph has
\* nodes: the graph is a chain and the root is its end.
C11_Witness ==
    /\ traversal.status = "ok"
    /\ Acyclic(graph)
    /\ Cardinality(DOMAIN graph.nodes) = MaxNodes
    /\ Len(traversal.collect) = MaxNodes
    /\ \A n \in DOMAIN graph.nodes : Cardinality(Producers(graph, n)) <= 1

(* C12: if a cycle of connections is reachable from the root (a node fed   *)
(* by its own output included), postorder_traversal never returns: it      *)
(* recurses without bound and yields no order and no error value.          *)
C12_CycleRecursesWithoutBound ==
    (traversal.status # "none" /\ CycleReachable(graph, traversal.root)) =>
        /\ traversal.status = "stack_overflow"
        /\ code_gen(graph, traversal.root, node_type_infos).status = "stack_overflow"

\* The traversal ran from a root that is on no cycle and reaches one.
C12_Witness ==
    /\ traversal.status = "stack_overflow"
    /\ traversal.root \notin Upstream(graph, traversal.root)
    /\ CycleReachable(graph, traversal.root)

----------------------------------------------------------------------------
(* The runs of SpecGen that ended with a generation: Set active was        *)
(* handled for the root and code_gen returned the text in core_gen_code.   *)

Generated == crashed = "no" /\ hist.event = "SetActiveNode"

GenRoot == user_state.active_node

\* The order of the generation, by the program's traversal.
GenOrder == topological_order_of(graph, GenRoot).collect

KindAt(order, i) == graph.nodes[order[i]].user_data.template

NameAt(order, i) == "_" \o ToString(i - 1) \o "_" \o graph.nodes[order[i]].label

Unconnected(input_id) == input_id \notin DOMAIN graph.connections

\* The graph of the example: MakeScalar, storing 2.0, feeds v1 of AddScalar,
\* whose v2 stores 3.0 and is not connected; AddScalar is the root.
ExampleGenerated ==
    /\ Generated
    /\ Cardinality(DOMAIN graph.nodes) = 2
    /\ \E a, b \in DOMAIN graph.nodes :
          /\ graph.nodes[a].user_data.template = "MakeScalar"
          /\ graph.nodes[b].user_data.template = "AddScalar"
          /\ GenRoot = b
          /\ DOMAIN graph.connections = {<<b, 1>>}
          /\ graph.connections[<<b, 1>>] = <<a, 1>>
          /\ graph.inputs[<<a, 1>>].value = Scalar(4)
          /\ graph.inputs[<<b, 2>>].value = Scalar(6)

Follow(text, first, second, third) ==
    \E i, j, k \in DOMAIN text :
        i < j /\ j < k /\ text[i] = first /\ text[j] = second /\ text[k] = third

(* C13, as stated: for the example graph the text holds the statement      *)
(* `float _0_MakeScalar_o0 = MakeScalar(2);`, then the statement           *)
(* `float _1_AddScalar_o0 = AddScalar(_0_MakeScalar_o0, 3);`, then a       *)
(* return statement with `_1_AddScalar_o0` in it.                          *)
C13_ExampleAsStated ==
    ExampleGenerated =>
        \E ret \in {"return float4(_1_AddScalar_o0, _1_AddScalar_o0, _1_AddScalar_o0, 1.0);",
                    "return float4(_1_AddScalar_o0, 1.0);",
                    "return AddScalar(_1_AddScalar_o0);"} :
            Follow(core_gen_code,
                   "float _0_MakeScalar_o0 = MakeScalar(2);",
                   "float _1_AddScalar_o0 = AddScalar(_0_MakeScalar_o0, 3);",
                   ret)

(* C13, amended: for the example graph the text is exactly the three       *)
(* statements `float  _0_MakeScalar_o0 = MakeScalar(2);`,                  *)
(* `float  _1_AddScalar_o0 = AddScalar(_0_MakeScalar_o0, 3);` (the type    *)
(* text of a scalar is `float ` with its trailing blank, followed by the   *)
(* separating blank) and                                                   *)
(* `return float4(_1_AddScalar_o0, _1_AddScalar_o0, _1_AddScalar_o0, 1.0);`*)
C13_ExampleText ==
    ExampleGenerated =>
        core_gen_code =
            << "float  _0_MakeScalar_o0 = MakeScalar(2);",
               "float  _1_AddScalar_o0 = AddScalar(_0_MakeScalar_o0, 3);",
               "return float4(_1_AddScalar_o0, _1_AddScalar_o0, _1_AddScalar_o0, 1.0);" >>

C13_Witness == ExampleGenerated /\ Len(core_gen_code) = 3

\* The positions of the order that hold a MainTexure2D node whose input uv
\* has no incoming connection.
UnconnectedTextures(order) ==
    {i \in DOMAIN order :
        KindAt(order, i) = "MainTexure2D" /\ Unconnected(<<order[i], 1>>)}

(* C14, as stated: a MainTexure2D node whose input uv has no incoming      *)
(* connection is emitted as the call `MainTexure2D(vso.uv)`.               *)
C14_TextureCallAsStated ==
    LET order == GenOrder IN
    Generated =>
        \A i \in UnconnectedTextures(order) :
            \E line \in Range(core_gen_code) :
                line = "float3 " \o NameAt(order, i) \o "_o0 = MainTexure2D(vso.uv);"

(* C14, amended: such a node is emitted as the call                        *)
(* `MainTexure2D(vso.uv, <name>_o1)`: the builtin string "vso.uv" is the   *)
(* text of the first argument verbatim, and the variable of the node's     *)
(* second output follows it as out-parameter.                              *)
C14_TextureCall ==
    LET order == GenOrder IN
    Generated =>
        \A i \in UnconnectedTextures(order) :
            \E line \in Range(core_gen_code) :
                line = "float3 " \o NameAt(order, i) \o "_o0 = MainTexure2D(vso.uv, "
                       \o NameAt(order, i) \o "_o1);"

\* A MainTexure2D node with uv unconnected was emitted as producer of the
\* root, after the stored value of uv had been edited.
C14_Witness ==
    LET order == GenOrder IN
    /\ Generated
    /\ Len(order) = 2
    /\ 1 \in UnconnectedTextures(order)
    /\ graph.inputs[<<order[1], 1>>].value # Vec3(0, 0, 0)

----------------------------------------------------------------------------
(* The statements of the text, as the properties describe them.            *)

RECURSIVE JoinArgs(_)
JoinArgs(args) ==
    IF args = <<>> THEN ""
    ELSE IF Len(args) = 1 THEN args[1]
    ELSE args[1] \o ", " \o JoinArgs(Tail(args))

TypeText(typ) == IF typ = "Scalar" THEN "float " ELSE "float3"

NOut(order, i) == Len(graph.nodes[order[i]].outputs)

NIn(order, i) == Len(graph.nodes[order[i]].inputs)

OutType(order, i, k) == graph.outputs[<<order[i], k>>].typ

\* The lines of the node at position i: the declarations of its outputs
\* 1.., its call, and for the root with an output the return statement.
LinesOf(order, i) ==
    IF NOut(order, i) = 0 THEN 1
    ELSE NOut(order, i) + (IF i = Len(order) THEN 1 ELSE 0)

RECURSIVE FirstLine(_, _)
FirstLine(order, i) == IF i = 1 THEN 1 ELSE FirstLine(order, i - 1) + LinesOf(order, i - 1)

\* The line of the single call of the node at position i.
CallLine(order, i) == FirstLine(order, i) + (IF NOut(order, i) = 0 THEN 0 ELSE NOut(order, i) - 1)

\* The texts code_gen gives the inputs of the node at position i.
InputArgs(order, i) ==
    [j \in 1 .. NIn(order, i) |->
        arg_text(graph, node_type_infos, indexs_of(order),
                 cg_node_names_of(graph, order), order[i], j)]

ExtraArgs(order, i) == [k \in 1 .. (NOut(order, i) - 1) |-> NameAt(order, i) \o "_o" \o ToString(k)]

(* C15: a node of the order with n >= 2 outputs has exactly n - 1 extra    *)
(* typed declarations, of <name>_o1 .. <name>_o(n-1), and its single call  *)
(* has exactly those n - 1 variables as trailing arguments after the       *)
(* arguments of the inputs; a node with one output has no extra            *)
(* declaration and no extra argument.                                      *)
C15_ExtraOutputs ==
    LET order == GenOrder IN
    Generated =>
        /\ Len(core_gen_code) = FirstLine(order, Len(order)) + LinesOf(order, Len(order)) - 1
        /\ \A i \in DOMAIN order :
              NOut(order, i) >= 1 =>
                /\ \A k \in 1 .. (NOut(order, i) - 1) :
                      core_gen_code[FirstLine(order, i) + k - 1] =
                          TypeText(OutType(order, i, k + 1)) \o " " \o NameAt(order, i) \o "_o"
                          \o ToString(k) \o ";"
                /\ core_gen_code[CallLine(order, i)] =
                      TypeText(OutType(order, i, 1)) \o " " \o NameAt(order, i) \o "_o0 = "
                      \o graph.nodes[order[i]].label \o "("
                      \o JoinArgs(InputArgs(order, i) \o ExtraArgs(order, i)) \o ");"

\* A node with two outputs and a node with one output were emitted.
C15_Witness ==
    LET order == GenOrder IN
    /\ Generated
    /\ \E i, i2 \in DOMAIN order : NOut(order, i) = 2 /\ NOut(order, i2) = 1
    /\ Len(core_gen_code) = 4

----------------------------------------------------------------------------
(* C16: every input parameter created by build_node holds a constant value *)
(* of the variant of the socket's declared data type (a Scalar value in a  *)
(* Scalar socket, a Vec3 value in a Vec3 socket), for every input socket   *)
(* of every registry entry, the sockets with a builtin default included;   *)
(* the inputs of the graph keep that through the edits of their values.    *)
C16_ValueVariantMatchesType ==
    /\ \A kind \in DOMAIN node_type_infos :
          \A j \in DOMAIN node_type_infos[kind].input_sockets :
              LET input_socket == node_type_infos[kind].input_sockets[j]
              IN  get_default_value(input_socket).tag = input_socket.ty
    /\ \A kind \in DOMAIN NODE_TYPE_INFOS :
          \A j \in DOMAIN NODE_TYPE_INFOS[kind].input_sockets :
              LET input_socket == NODE_TYPE_INFOS[kind].input_sockets[j]
              IN  types_get_default_value(input_socket).tag = input_socket.ty
    /\ \A input_id \in DOMAIN graph.inputs :
          graph.inputs[input_id].value.tag = graph.inputs[input_id].typ

\* build_node created a Vec3 input with a builtin default, a Vec3 input
\* with a literal default and a Scalar input, and a value was edited.
C16_Witness ==
    /\ \E n, m \in DOMAIN graph.nodes :
          /\ graph.nodes[n].user_data.template = "MainTexure2D"
          /\ graph.nodes[m].user_data.template = "Main"
          /\ graph.inputs[<<n, 1>>].value.tag = "Vec3"
          /\ graph.inputs[<<m, 1>>].value.tag = "Vec3"
          /\ graph.inputs[<<m, 2>>].value.tag = "Scalar"
    /\ hist.event = "ValueChanged"

----------------------------------------------------------------------------
(* The argument texts, as the properties describe them.                    *)

\* The bare decimal of the f32 whose double is h (h >= 0 here).
Decimal(h) == ToString(h \div 2) \o (IF h % 2 = 1 THEN ".5" ELSE "")

LiteralText(value) ==
    IF value.tag = "Vec3"
    THEN "float3(" \o Decimal(value.value[1]) \o ", " \o Decimal(value.value[2])
         \o ", " \o Decimal(value.value[3]) \o ")"
    ELSE Decimal(value.value)

SocketOf(n, j) == node_type_infos[graph.nodes[n].user_data.template].input_sockets[j]

IsLiteral(n, j) == Unconnected(<<n, j>>) /\ SocketOf(n, j).default.tag = "Ok"

IsBuiltin(n, j) == Unconnected(<<n, j>>) /\ SocketOf(n, j).default.tag = "Err"

IsConnected(n, j) == ~Unconnected(<<n, j>>)

StoredText(order, n, j) == LiteralText(graph.inputs[<<n, j>>].value)

BuiltinText(order, n, j) == SocketOf(n, j).default.text

\* `_<p>_<label>_o<k>`: p the position of the producer in the order, k the
\* position of the connection's output in the producer's output list.
ReferenceText(order, n, j) ==
    LET output_id == graph.connections[<<n, j>>]
        producer == graph.outputs[output_id].node
        p == CHOOSE p \in DOMAIN order : order[p] = producer
        k == CHOOSE k \in DOMAIN graph.nodes[producer].outputs :
                graph.nodes[producer].outputs[k].id = output_id
    IN  "_" \o ToString(p - 1) \o "_" \o graph.nodes[producer].label
        \o "_o" \o ToString(k - 1)

\* The text code_gen gives input j of node n in the generation of an order.
EmittedArg(order, n, j) ==
    arg_text(graph, node_type_infos, indexs_of(order),
             cg_node_names_of(graph, order), n, j)

\* The argument texts of the node at position i, those of the inputs Of
\* taken from Text.
ArgsWith(order, i, Of(_, _), Text(_, _, _)) ==
    [j \in 1 .. NIn(order, i) |->
        IF Of(order[i], j) THEN Text(order, order[i], j) ELSE InputArgs(order, i)[j]]

\* The statement of the call of the node at position i with the arguments args.
CallText(order, i, args) ==
    IF NOut(order, i) = 0
    THEN "return " \o graph.nodes[order[i]].label \o "(" \o JoinArgs(args) \o ");"
    ELSE TypeText(OutType(order, i, 1)) \o " " \o NameAt(order, i) \o "_o0 = "
         \o graph.nodes[order[i]].label \o "("
         \o JoinArgs(args \o ExtraArgs(order, i)) \o ");"

\* In the generation from every root, the inputs Of of every node of the
\* order get the text Text.
InEveryOrder(Of(_, _), Text(_, _, _)) ==
    \A root \in DOMAIN graph.nodes :
        LET trav == topological_order_of(graph, root)
        IN  trav.status = "ok" =>
                \A p \in DOMAIN trav.collect :
                    LET n == trav.collect[p]
                    IN  \A j \in DOMAIN graph.nodes[n].inputs :
                            Of(n, j) =>
                                EmittedArg(trav.collect, n, j) = Text(trav.collect, n, j)

(* C17: for an unconnected input whose registry default is a literal, the  *)
(* text holds the value now stored in the input slot (not the registry's   *)
(* default), as `float3(x, y, z)` for a vector and as the bare decimal for *)
(* a scalar; and that text is the same at whatever position of whatever    *)
(* order the node stands.                                                  *)
C17_LiteralIsStoredValue ==
    LET order == GenOrder IN
    Generated =>
        /\ \A i \in DOMAIN order :
              core_gen_code[CallLine(order, i)] = CallText(order, i, ArgsWith(order, i, IsLiteral, StoredText))
        /\ InEveryOrder(IsLiteral, StoredText)

\* Two nodes were emitted, each with an unconnected literal input whose
\* stored value was edited away from the registry's default, one a vector.
C17_Witness ==
    LET order == GenOrder IN
    /\ Generated
    /\ Len(order) = 2
    /\ \E j \in 1 .. NIn(order, 1) :
          /\ IsLiteral(order[1], j)
          /\ graph.inputs[<<order[1], j>>].value # SocketOf(order[1], j).default.value
    /\ \E j \in 1 .. NIn(order, 2) :
          /\ IsLiteral(order[2], j)
          /\ graph.inputs[<<order[2], j>>].typ = "Vec3"
          /\ graph.inputs[<<order[2], j>>].value # SocketOf(order[2], j).default.value

(* C18: for an unconnected input whose registry default is a builtin       *)
(* expression string, the text holds exactly that string as the argument,  *)
(* whatever value the input slot stores.                                   *)
C18_BuiltinIsVerbatim ==
    LET order == GenOrder IN
    Generated =>
        /\ \A i \in DOMAIN order :
              core_gen_code[CallLine(order, i)] = CallText(order, i, ArgsWith(order, i, IsBuiltin, BuiltinText))
        /\ InEveryOrder(IsBuiltin, BuiltinText)

\* The root has an unconnected builtin input whose stored value was edited.
C18_Witness ==
    LET order == GenOrder IN
    /\ Generated
    /\ \E j \in 1 .. NIn(order, Len(order)) :
          /\ IsBuiltin(GenRoot, j)
          /\ graph.inputs[<<GenRoot, j>>].value.value[1] \in GenValues

(* C19: for a connected input the text holds the reference                 *)
(* `_<p>_<label>_o<k>`: p the position of the producer in the traversal    *)
(* order, label the producer's label, k the positional index of the        *)
(* connection's output socket in the producer's output list.               *)
C19_ConnectedIsReference ==
    LET order == GenOrder IN
    Generated =>
        /\ \A i \in DOMAIN order :
              core_gen_code[CallLine(order, i)] = CallText(order, i, ArgsWith(order, i, IsConnected, ReferenceText))
        /\ InEveryOrder(IsConnected, ReferenceText)

\* An input of the root is connected to the second output of its producer.
C19_Witness ==
    LET order == GenOrder IN
    /\ Generated
    /\ \E j \in 1 .. NIn(order, Len(order)) :
          /\ IsConnected(GenRoot, j)
          /\ graph.connections[<<GenRoot, j>>][2] = 2

(* C20: a node with no output socket is emitted as the single statement    *)
(* `return <Label>(<args>);`; an order holds at most one such node, it is  *)
(* the root, and its statement is the last statement of the text.          *)
C20_SinkIsRootAndLast ==
    LET order == GenOrder IN
    Generated =>
        /\ Cardinality({i \in DOMAIN order : NOut(order, i) = 0}) <= 1
        /\ \A i \in DOMAIN order :
              NOut(order, i) = 0 =>
                /\ order[i] = GenRoot
                /\ i = Len(order)
                /\ Len(core_gen_code) = FirstLine(order, i)
                /\ core_gen_code[Len(core_gen_code)] =
                      "return " \o graph.nodes[order[i]].label \o "("
                      \o JoinArgs(InputArgs(order, i)) \o ");"

\* A node without output was generated as root, fed by a producer, beside
\* nothing else.
C20_Witness ==
    LET order == GenOrder IN
    /\ Generated
    /\ Len(order) = 2
    /\ NOut(order, 2) = 0
    /\ Len(core_gen_code) >= 2

----------------------------------------------------------------------------
(* The return statement of a root that has an output.                      *)

ReturnText(name, typ) ==
    IF typ = "Scalar"
    THEN "return float4(" \o name \o "_o0, " \o name \o "_o0, " \o name \o "_o0, 1.0);"
    ELSE "return float4(" \o name \o "_o0, 1.0);"

\* The return statements over the first output of a node of the order.
ReturnsOver(order) ==
    {ReturnText(NameAt(order, i), typ) : i \in DOMAIN order, typ \in {"Scalar", "Vec3"}}

(* C21: when the root has at least one output, the text holds exactly one  *)
(* return statement over a node's first output: it stands right after the  *)
(* root's call, it is `return float4(x, x, x, 1.0);` when the root's first *)
(* output is a Scalar and `return float4(x, 1.0);` when it is a Vec3, x    *)
(* being the root's `_o0` variable; no other node gets such a statement.   *)
C21_RootReturnByType ==
    LET order == GenOrder IN
    (Generated /\ NOut(order, Len(order)) >= 1) =>
        /\ Len(core_gen_code) = CallLine(order, Len(order)) + 1
        /\ core_gen_code[CallLine(order, Len(order)) + 1] =
              ReturnText(NameAt(order, Len(order)), OutType(order, Len(order), 1))
        /\ {l \in DOMAIN core_gen_code : core_gen_code[l] \in ReturnsOver(order)}
              = {CallLine(order, Len(order)) + 1}

\* A root whose first output is a Vec3 was generated after a producer that
\* has an output too.
C21_Witness ==
    LET order == GenOrder IN
    /\ Generated
    /\ Len(order) = 2
    /\ NOut(order, 1) >= 1
    /\ NOut(order, 2) >= 1
    /\ OutType(order, 2, 1) = "Vec3"

----------------------------------------------------------------------------
(* The argument list of a call.                                            *)

\* The fixed trailing argument of the kinds that have one.
FixedArgs(kind) ==
    IF kind = "NormalDirection" THEN <<"vso.nrm">>
    ELSE IF kind = "UV0" THEN <<"vso.uv">>
    ELSE <<>>

\* The text of an unconnected input of a node just built from the registry.
FreshArg(input_socket) ==
    IF input_socket.default.tag = "Ok"
    THEN LiteralText(input_socket.default.value)
    ELSE input_socket.default.text

\* The call of a node of a kind that stands alone in a graph, by the rule
\* of the argument list.
FreshCall(kind) ==
    LET info == node_type_infos[kind]
        name == "_0_" \o info.label
        args == [j \in DOMAIN info.input_sockets |-> FreshArg(info.input_sockets[j])]
                \o FixedArgs(kind)
                \o [k \in 1 .. (Len(info.output_sockets) - 1) |-> name \o "_o" \o ToString(k)]
    IN  IF Len(info.output_sockets) = 0
        THEN "return " \o info.label \o "(" \o JoinArgs(args) \o ");"
        ELSE TypeText(info.output_sockets[1].ty) \o " " \o name \o "_o0 = "
             \o info.label \o "(" \o JoinArgs(args) \o ");"

\* The text generated for a graph that holds one node of a kind, just
\* created from the finder.
FreshText(kind) ==
    code_gen(add_node(EmptyGraph, kind, node_type_infos), 1, node_type_infos).text

\* The line of the call in FreshText(kind).
FreshCallLine(kind) ==
    IF node_type_infos[kind].output_sockets = <<>> THEN 1
    ELSE Len(node_type_infos[kind].output_sockets)

(* C22: in every call the arguments stand in the order of the socket       *)
(* declarations (the inputs, then the fixed trailing argument of the kind  *)
(* if it has one, then the out-parameters), with exactly one `, ` between  *)
(* two consecutive arguments, none before the first or after the last,     *)
(* and no two arguments run together: for a node of every kind of the      *)
(* registry standing alone (evaluated when a node has been created), and   *)
(* for every node of every generated order with its connections.           *)
C22_ArgumentsSeparated ==
    LET order == GenOrder IN
    /\ hist.event = "CreateNode" =>
          \A kind \in DOMAIN node_type_infos :
              /\ FreshCallLine(kind) \in DOMAIN FreshText(kind)
              /\ FreshText(kind)[FreshCallLine(kind)] = FreshCall(kind)
    /\ Generated =>
          \A i \in DOMAIN order :
              core_gen_code[CallLine(order, i)] =
                  CallText(order, i, InputArgs(order, i) \o FixedArgs(KindAt(order, i)))

\* A call with a connected and an unconnected input and a call with an
\* input and an out-parameter were generated; the registry has kinds with
\* a fixed trailing argument.
C22_Witness ==
    LET order == GenOrder IN
    /\ Generated
    /\ Len(order) = 2
    /\ NIn(order, 1) = 1 /\ NOut(order, 1) = 2
    /\ NIn(order, 2) = 2
    /\ IsConnected(order[2], 1) /\ Unconnected(<<order[2], 2>>)
    /\ \E kind \in DOMAIN node_type_infos : FixedArgs(kind) # <<>>

----------------------------------------------------------------------------
(* The consumer that reaches a node first.                                 *)

\* The walks from node n against the connections, each as the pair of the
\* input positions taken and the node arrived at; at most fuel steps.
RECURSIVE Walks(_, _, _)
Walks(g, n, fuel) ==
    {<< <<>>, n >>} \cup
    (IF fuel = 0 THEN {}
     ELSE UNION {
            {<< <<j>> \o w[1], w[2] >> :
                w \in Walks(g, g.outputs[g.connections[g.nodes[n].inputs[j].id]].node,
                            fuel - 1)} :
            j \in {j \in DOMAIN g.nodes[n].inputs :
                     g.nodes[n].inputs[j].id \in DOMAIN g.connections}})

IsPrefix(p, q) == Len(p) <= Len(q) /\ SubSeq(q, 1, Len(p)) = p

\* p turns to an earlier input than q where the two part.
LexLess(p, q) ==
    \E k \in 1 .. Len(p) :
        /\ k <= Len(q)
        /\ SubSeq(p, 1, k - 1) = SubSeq(q, 1, k - 1)
        /\ p[k] < q[k]

PathsTo(g, root, m) ==
    {w[1] : w \in {w \in Walks(g, root, Cardinality(DOMAIN g.nodes)) : w[2] = m}}

\* The way a depth-first walk in input-iteration order comes to m first.
FirstPath(g, root, m) ==
    CHOOSE p \in PathsTo(g, root, m) :
        \A q \in PathsTo(g, root, m) : q = p \/ LexLess(p, q)

\* m is emitted before m2: m lies on the way below m2, or the way to m
\* turns to an earlier input than the way to m2.
EmittedBefore(g, root, m, m2) ==
    LET p == FirstPath(g, root, m)
        q == FirstPath(g, root, m2)
    IN  IsPrefix(q, p) \/ (~IsPrefix(p, q) /\ LexLess(p, q))

(* C23: a node reachable from the root through several consumers is in the *)
(* order exactly once, at the position given by the consumer that reaches  *)
(* it first, depth first in input-iteration order: of two nodes of the     *)
(* order the earlier is the one below the other on its first way, or the   *)
(* one whose first way turns to an earlier input; the ways through later   *)
(* consumers neither move nor repeat a node.                               *)
C23_FirstConsumerFixesPosition ==
    OrderBuilt =>
        /\ \A n \in Reachable(graph, traversal.root) :
              Cardinality(Positions(traversal.collect, n)) = 1
        /\ \A i, k \in DOMAIN traversal.collect :
              i < k => EmittedBefore(graph, traversal.root,
                                     traversal.collect[i], traversal.collect[k])

\* A node was ordered that feeds the second input of the root and, first
\* reached, an input of the producer at the root's first input.
C23_Witness ==
    /\ OrderBuilt
    /\ Len(traversal.collect) = 3
    /\ \E m \in Range(traversal.collect) :
          /\ FirstPath(graph, traversal.root, m) = <<1, 1>>
          /\ <<2>> \in PathsTo(graph, traversal.root, m)
          /\ traversal.collect[1] = m

----------------------------------------------------------------------------
(* The handlers of update on short runs: every event of the editor and     *)
(* every button of the top panel, on graphs of the kinds UiKinds, up to    *)
(* MaxUiEvents events in a run.                                            *)

UiKinds == {"MakeScalar", "AddScalar"}
\* the events of one run of SpecUi
MaxUiEvents == 4

UiBudget == hist.events < MaxUiEvents

NextUi ==
    \/ \E kind \in UiKinds : UiBudget /\ CreateNode(kind) /\ Log("CreateNode")
    \/ \E node_id \in 1 .. MaxNodes : UiBudget /\ DeleteNode(node_id) /\ Log("DeleteNode")
    \/ \E output_id \in OutputIds, input_id \in InputIds :
          UiBudget /\ Connect(output_id, input_id) /\ Log("Connect")
    \/ \E input_id \in InputIds : UiBudget /\ Disconnect(input_id) /\ Log("Disconnect")
    \/ \E input_id \in InputIds, c \in 1 .. 3, v \in DragValues :
          UiBudget /\ ValueChanged(input_id, c, v) /\ Log("ValueChanged")
    \/ \E node_id \in 1 .. MaxNodes :
          UiBudget /\ SetActiveNode(node_id) /\ Log("SetActiveNode")
    \/ UiBudget /\ ClearActiveNode /\ Log("ClearActiveNode")
    \/ \E pick \in RonPaths \cup {None} :
          UiBudget /\ LoadGraph(pick) /\ LogWith("LoadGraph", pick)
    \/ \E pick \in RonPaths \cup {None} : UiBudget /\ SaveGraph(pick) /\ Log("SaveGraph")
    \/ \E pick \in RonPaths \cup {None} :
          UiBudget /\ SaveGraphAs(pick) /\ Log("SaveGraphAs")
    \/ \E pick \in FxPaths \cup {None} : UiBudget /\ SaveFx(pick) /\ Log("SaveFx")
    \/ \E pick \in FxPaths \cup {None} : UiBudget /\ SaveFxAs(pick) /\ Log("SaveFxAs")

SpecUi == Init /\ [][NextUi]_vars

ActiveNode == user_state.active_node

(* C24: the active node changes only through the user responses: the       *)
(* handling of SetActiveNode(n) leaves n the active node, that of          *)
(* ClearActiveNode leaves none, that of ValueChanged and of every other    *)
(* event leaves it as it was; ClearActiveNode comes only from a node of    *)
(* the graph that is the active one, SetActiveNode(n) only from a node of  *)
(* the graph that is not.                                                  *)
C24_ActiveNodeFollowsResponses ==
    [][ /\ \A n \in 1 .. MaxNodes : SetActiveNode(n) => ActiveNode' = n
        /\ hist'.event = "SetActiveNode" =>
              /\ ActiveNode' \in DOMAIN graph.nodes
              /\ ActiveNode' # ActiveNode
        /\ hist'.event = "ClearActiveNode" =>
              /\ ActiveNode' = NoNode
              /\ ActiveNode \in DOMAIN graph.nodes
        /\ hist'.event \notin {"SetActiveNode", "ClearActiveNode"} =>
              ActiveNode' = ActiveNode ]_vars

\* The second node of a graph was made active in place of the first, and
\* the active node was cleared after that.
C24_Witness ==
    /\ hist.event = "ClearActiveNode"
    /\ hist.events = MaxUiEvents
    /\ ActiveNode = NoNode
    /\ graph.num_keys = 2

(* C25: in every state between two frames core_gen_code is empty exactly   *)
(* when there is no active node: it is empty in the state after            *)
(* construction and after a ClearActiveNode, and not empty whenever an     *)
(* active node is set.                                                     *)
C25_CodeEmptyIffNoActiveNode ==
    Running =>
        /\ core_gen_code = <<>> <=> ActiveNode = NoNode
        /\ hist.event \in {"init", "ClearActiveNode"} => core_gen_code = <<>>
        /\ hist.event = "SetActiveNode" => core_gen_code # <<>>

\* The active node was cleared after code had been generated for it and
\* written to the .fx file.
C25_Witness ==
    /\ Running
    /\ hist.event = "ClearActiveNode"
    /\ core_gen_code = <<>>
    /\ \E p \in FxPaths : files[p].kind = "fx"

----------------------------------------------------------------------------
(* The variables of the text and the lines that declare them.              *)

\* The line that declares output k (from 0) of the node at position p: its
\* call for k = 0, its k-th declaration otherwise.
DeclLine(order, p, k) ==
    IF k = 0 THEN CallLine(order, p) ELSE FirstLine(order, p) + k - 1

\* The text of that line up to the name of the variable it declares.
DeclHead(order, p, k) ==
    TypeText(OutType(order, p, k + 1)) \o " " \o NameAt(order, p) \o "_o" \o ToString(k)

\* The line l of the text declares output k of the node at position p.
Declares(order, l, p, k) ==
    /\ l \in DOMAIN core_gen_code
    /\ l = DeclLine(order, p, k)
    /\ core_gen_code[l] =
          (IF k = 0 THEN CallText(order, p, InputArgs(order, p))
           ELSE DeclHead(order, p, k) \o ";")

(* C26: on an acyclic graph every variable the text uses as an argument is *)
(* declared on an earlier line: a reference `_<p>_<label>_o<k>` in the     *)
(* call of the node at position i names a position p < i and an output     *)
(* k of the node at p that exists, and the line declaring it precedes the  *)
(* call; each out-parameter of a node is declared on a line before the     *)
(* call of that node.                                                      *)
C26_DeclaredBeforeUse ==
    LET order == GenOrder IN
    Generated =>
        \A i \in DOMAIN order :
            /\ \A j \in 1 .. NIn(order, i) :
                  IsConnected(order[i], j) =>
                      \E p \in 1 .. (i - 1) :
                          \E k \in 0 .. (NOut(order, p) - 1) :
                              /\ InputArgs(order, i)[j] =
                                    NameAt(order, p) \o "_o" \o ToString(k)
                              /\ Declares(order, DeclLine(order, p, k), p, k)
                              /\ DeclLine(order, p, k) < CallLine(order, i)
            /\ core_gen_code[CallLine(order, i)] = CallText(order, i, InputArgs(order, i))
            /\ \A k \in 1 .. (NOut(order, i) - 1) :
                  /\ Declares(order, DeclLine(order, i, k), i, k)
                  /\ DeclLine(order, i, k) < CallLine(order, i)

\* The root takes the second output of its producer, an out-parameter.
C26_Witness ==
    LET order == GenOrder IN
    /\ Generated
    /\ Len(order) = 2
    /\ NOut(order, 1) = 2
    /\ \E j \in 1 .. NIn(order, 2) :
          /\ IsConnected(order[2], j)
          /\ InputArgs(order, 2)[j] = NameAt(order, 1) \o "_o1"

----------------------------------------------------------------------------
(* The parameters of a node against the sockets of its registry entry.     *)

MatchesRegistry(g, n) ==
    LET info == node_type_infos[g.nodes[n].user_data.template]
        inputs == g.nodes[n].inputs
        outputs == g.nodes[n].outputs
    IN  /\ Len(inputs) = Len(info.input_sockets)
        /\ \A j \in DOMAIN inputs :
              /\ inputs[j].name = info.input_sockets[j].name
              /\ g.inputs[inputs[j].id].typ = info.input_sockets[j].ty
              /\ g.inputs[inputs[j].id].node = n
        /\ Len(outputs) = Len(info.output_sockets)
        /\ \A k \in DOMAIN outputs :
              /\ outputs[k].name = info.output_sockets[k].name
              /\ g.outputs[outputs[k].id].typ = info.output_sockets[k].ty
              /\ g.outputs[outputs[k].id].node = n

\* The lookups `input_sockets[j]` and `indexs[&next_nid]` of the generation
\* from root find their entries.
LookupsDefined(g, root) ==
    LET trav == topological_order_of(g, root)
    IN  trav.status = "ok" =>
            \A n \in Range(trav.collect) :
                \A j \in DOMAIN g.nodes[n].inputs :
                    IF g.nodes[n].inputs[j].id \in DOMAIN g.connections
                    THEN g.outputs[g.connections[g.nodes[n].inputs[j].id]].node
                            \in DOMAIN indexs_of(trav.collect)
                    ELSE j \in DOMAIN node_type_infos[g.nodes[n].user_data.template].input_sockets

(* C27: a node built by build_node has exactly as many input and output    *)
(* parameters as its registry entry has sockets, in the same order and     *)
(* with the same names and data types: for a node of every kind of the     *)
(* registry (evaluated when a node has been created) and for every node    *)
(* of every graph built through the editor; so the lookups                 *)
(* `input_sockets[j]` of an unconnected input and `indexs[&next_nid]` of a *)
(* connected producer find their entries in every generation.              *)
C27_NodeMatchesRegistry ==
    /\ hist.event = "CreateNode" =>
          \A kind \in DOMAIN node_type_infos :
              MatchesRegistry(add_node(EmptyGraph, kind, node_type_infos), 1)
    /\ \A n \in DOMAIN graph.nodes :
          /\ MatchesRegistry(graph, n)
          /\ LookupsDefined(graph, n)
    /\ crashed \notin {"index_panic", "registry_miss"}

\* A graph with a node of two outputs was generated from a root that has a
\* connected and an unconnected input.
C27_Witness ==
    LET order == GenOrder IN
    /\ Generated
    /\ Len(order) = 2
    /\ NOut(order, 1) = 2
    /\ NIn(order, 2) = 2
    /\ IsConnected(order[2], 1)
    /\ Unconnected(<<order[2], 2>>)

----------------------------------------------------------------------------
(* What the handlers write to the files.                                   *)

\* The lines code stand in the text one after the other.
Holds(text, code) ==
    \E first \in 0 .. (Len(text) - Len(code)) :
        SubSeq(text, first + 1, first + Len(code)) = code

(* C28: save_fx_file writes nothing when core_gen_code is empty or no .fx  *)
(* path is set: the handling of ClearActiveNode leaves every file as it    *)
(* was, and so does Save Fx or Save Fx As with empty code or with no path  *)
(* picked, and a regeneration without path; every regeneration with an     *)
(* active node and the .fx path set rewrites that file with the text just  *)
(* generated in it.                                                        *)
C28_FxFileWrittenOnlyWithCode ==
    [][ /\ hist'.event = "ClearActiveNode" => files' = files
        /\ (hist'.event \in {"SaveFx", "SaveFxAs"}
            /\ (core_gen_code' = <<>> \/ path_buf' = None)) => files' = files
        /\ (hist'.event \in {"SetActiveNode", "ValueChanged"} /\ path_buf' = None) =>
              files' = files
        /\ (hist'.event \in {"SetActiveNode", "ValueChanged"}
            /\ Running' /\ ActiveNode' # NoNode /\ path_buf' # None) =>
              /\ files'[path_buf'].kind = "fx"
              /\ Holds(files'[path_buf'].text, core_gen_code')
              /\ core_gen_code' = code_gen(graph', ActiveNode', node_type_infos).text
              /\ \A p \in DOMAIN files : p # path_buf' => files'[p] = files[p] ]_vars

\* The active node was cleared while the .fx file written before holds the
\* code generated for it.
C28_Witness ==
    /\ Running
    /\ hist.event = "ClearActiveNode"
    /\ path_buf # None
    /\ files[path_buf].kind = "fx"
    /\ \E n \in DOMAIN graph.nodes :
          Holds(files[path_buf].text, code_gen(graph, n, node_type_infos).text)

(* C29: Load Graph changes nothing but the editor state and the file at    *)
(* the graph save path: the active node, core_gen_code, the .fx path and   *)
(* the graph save path stay as they were (nothing is regenerated), the     *)
(* editor state changes only to the content of a file that was picked,     *)
(* and the editor state it ends with is written to the graph save path     *)
(* when one is set, also when the dialog was cancelled.                    *)
C29_LoadGraphWritesBack ==
    [][ hist'.event = "LoadGraph" =>
          /\ ActiveNode' = ActiveNode
          /\ core_gen_code' = core_gen_code
          /\ path_buf' = path_buf
          /\ shader_path_buf' = shader_path_buf
          /\ crashed' = crashed
          /\ ~hist'.loaded.read => state' = state
          /\ hist'.loaded.read =>
                \E p \in RonPaths : files[p].kind = "ron" /\ state' = files[p].ron
          /\ \A p \in DOMAIN files : p # shader_path_buf => files'[p] = files[p]
          /\ shader_path_buf # None =>
                /\ files'[shader_path_buf].kind = "ron"
                /\ files'[shader_path_buf].ron = state' ]_vars

\* Load Graph was cancelled with a graph save path set, and the file there
\* got the editor state, changed since the file was written last.
C29_Witness ==
    /\ hist.event = "LoadGraph"
    /\ ~hist.loaded.read
    /\ shader_path_buf # None
    /\ files[shader_path_buf].kind = "ron"
    /\ files[shader_path_buf].ron = state
    /\ graph.num_keys = 2

----------------------------------------------------------------------------
(* C30: every function the generated code calls (the label of the kind of  *)
(* every node of the order, and so of every kind of the registry) is the   *)
(* name of a function defined in the boilerplate that save_fx_file puts    *)
(* around the code (HLSL_0 and HLSL_1).                                    *)
C30_CalleesAreDefined ==
    LET order == GenOrder IN
    Generated =>
        \A i \in DOMAIN order :
            /\ core_gen_code[CallLine(order, i)] = CallText(order, i, InputArgs(order, i))
            /\ graph.nodes[order[i]].label \in HLSL_functions

=============================================================================
